---- MODULE Spec2Model ----
(***************************************************************************)
(* Model of the ingestion / normalisation pipeline of the review-anomaly   *)
(* dashboard: CSVParser (utils/csvParser.ts), DataPreprocessor             *)
(* (utils/dataPreprocessing.ts, both the composite-id and the review_id    *)
(* variant), the upload handler CompactCSVUpload.handleFileUpload and the  *)
(* zustand store it writes to.                                             *)
(*                                                                         *)
(* JavaScript strings are modelled as sequences of one-character strings,  *)
(* so that trim, toLowerCase, replace and substring are computed and not   *)
(* assumed.  `undefined` is the model value Undefined.                     *)
(***************************************************************************)
EXTENDS Integers, Sequences, FiniteSets, TLC

VARIABLES
  pc,              \* position of the operation under way
  field,           \* CSV: the field content that was serialised (or NoField)
  csvText,         \* CSV / upload: the text handed to CSVParser.parse
  data,            \* CSV: the array returned by CSVParser.parse
  headers,         \* validateStructure: argument headers
  expectedHeaders, \* validateStructure: argument expectedHeaders (or NoExpected)
  errors,          \* validateStructure: the returned error list
  variant,         \* which DataPreprocessor the build holds: "composite" or "review_id"
  rawData,         \* preprocessData: the argument rawData
  cleanedData,     \* preprocessData: the returned cleanedData
  report,          \* preprocessData: the returned report
  run,             \* preprocessData: 1, or 2 when the input is the output of run 1
  firstReport,     \* preprocessData: the report of run 1, kept during run 2
  fileHeader,      \* upload: the column names of the uploaded file's header line
  fileRows,        \* upload: the number of data lines of the uploaded file
  store,           \* upload: the zustand store useCSVDataStore
  validationStatus,  \* upload: CompactCSVUpload state
  validationErrors,  \* upload: CompactCSVUpload state
  isProcessing,      \* upload: CompactCSVUpload state
  uploadProgress,    \* upload: CompactCSVUpload state
  tokens,          \* analyzeSentiment: the words the argument text was written from
  inputText,       \* analyzeSentiment: the argument text
  sentiment,       \* analyzeSentiment: the locals score, wordCount and the result
  reviews,         \* detectAnomalies / calculateTimelineSentiment: the argument data
  anomalies,       \* detectAnomalies: the returned anomaly records
  timeline,        \* calculateTimelineSentiment: the returned buckets
  timeZone,        \* SentimentAnalyzer: the time zone of the environment
  llmData,         \* enhanceDataWithLLM: the argument data
  analysisCache,   \* LLMSentimentAnalyzer.analysisCache
  errorCount,      \* LLMSentimentAnalyzer.errorCount
  performanceMetrics,  \* LLMSentimentAnalyzer.performanceMetrics
  results,         \* analyzeBatchSentiment: the array results
  batches,         \* analyzeBatchSentiment: the calls of processSingleBatch
  groupStart,      \* analyzeBatchSentiment: i of the loop over the batch groups
  enhanced,        \* enhanceDataWithLLM: the rows it resolved with
  files,           \* Index page: the files the user is still to select
  runs,            \* Index page: the calls of startAnalysis
  analysisProgress,  \* Index state
  activeTab          \* Index state

csvVars == <<field, csvText, data>>
valVars == <<headers, expectedHeaders, errors>>
preVars == <<rawData, cleanedData, report, run, firstReport>>

upVars == <<fileHeader, fileRows, store, validationStatus, validationErrors,
            isProcessing, uploadProgress>>

anaVars == <<tokens, inputText, sentiment, reviews, anomalies, timeline, timeZone>>

llmVars == <<llmData, analysisCache, errorCount, performanceMetrics, results, batches,
             groupStart, enhanced>>

appVars == <<files, runs, analysisProgress, activeTab>>

asyncVars == <<llmVars, appVars>>

vars == <<pc, csvVars, valVars, variant, preVars, upVars, anaVars, asyncVars>>

\* `undefined`, and "no argument given": kept apart from every string by a
\* character no string of the model contains
Undefined == <<"undefined-value">>
NoField == <<"no-field">>
NoExpected == <<Undefined>>

(***************************************************************************)
(* Bounds of the model                                                     *)
(***************************************************************************)
MaxFieldLen == 3
MaxTextLen == 5
MaxHeaders == 3
MaxExpected == 2
MaxRows == 3
MaxUploadCols == 4
MaxUploadRows == 1
MaxTokens == 5
MaxReviews == 5

(***************************************************************************)
(* String helpers (the ECMAScript string methods the code uses)            *)
(***************************************************************************)
QUOTE == "\""
COMMA == ","
LF == "\n"
CR == "\r"
SPACE == " "

\* /\s/ restricted to the characters the model uses
WhiteSpace == {" ", "\t", "\n", "\r"}

SeqsUpTo(S, n) == UNION {[1..k -> S] : k \in 0..n}

RECURSIVE TrimStart(_)
TrimStart(s) ==
  IF s = <<>> THEN <<>>
  ELSE IF Head(s) \in WhiteSpace THEN TrimStart(Tail(s)) ELSE s

RECURSIVE TrimEnd(_)
TrimEnd(s) ==
  IF s = <<>> THEN <<>>
  ELSE IF s[Len(s)] \in WhiteSpace THEN TrimEnd(SubSeq(s, 1, Len(s) - 1)) ELSE s

\* String.prototype.trim
Trim(s) == TrimEnd(TrimStart(s))

UpperCase == <<"A","B","C","D","E","F","G","H","I","J","K","L","M",
               "N","O","P","Q","R","S","T","U","V","W","X","Y","Z">>
LowerCase == <<"a","b","c","d","e","f","g","h","i","j","k","l","m",
               "n","o","p","q","r","s","t","u","v","w","x","y","z">>

LowerChar(c) ==
  IF \E k \in 1..26 : UpperCase[k] = c
  THEN LowerCase[CHOOSE k \in 1..26 : UpperCase[k] = c]
  ELSE c

\* String.prototype.toLowerCase
ToLowerCase(s) == [k \in 1..Len(s) |-> LowerChar(s[k])]

\* Array.prototype.includes / indexOf >= 0 on a sequence
SeqIncludes(seq, x) == \E k \in 1..Len(seq) : seq[k] = x

(***************************************************************************)
(* CSVParser (utils/csvParser.ts)                                          *)
(***************************************************************************)

\* splitCSVLines, lines 60-61: is this character a line end?
IsLineEndAnywhere(char, inQuotes) == char = LF \/ char = CR
IsLineEnd(char, inQuotes) == (char = LF \/ char = CR) /\ ~inQuotes

(* splitCSVLines, the while loop of lines 48-79.  The loop state is the     *)
(* index i the loop is at, inQuotes, currentLine and lines.  SplitStep is   *)
(* the loop body run at index k; an index the loop has stepped over         *)
(* (k # st.i) is passed by.  SplitLoop composes the bodies of lo..hi in     *)
(* index order, by halves; nothing is left to do once the loop is past hi.  *)
SplitStep(text, st, k) ==
  IF k # st.i THEN st
  ELSE
    LET char == text[k] IN
    IF char = QUOTE THEN
      IF k + 1 <= Len(text) /\ text[k + 1] = QUOTE
      THEN [st EXCEPT !.i = k + 2, !.currentLine = @ \o <<QUOTE, QUOTE>>]
      ELSE [st EXCEPT !.i = k + 1, !.inQuotes = ~@,
                      !.currentLine = Append(@, char)]
    ELSE IF char = LF \/ char = CR THEN
      IF ~IsLineEnd(char, st.inQuotes)
      THEN [st EXCEPT !.i = k + 1, !.currentLine = Append(@, char)]
      ELSE
        LET pushed == IF Trim(st.currentLine) # <<>>
                      THEN Append(st.lines, st.currentLine)
                      ELSE st.lines
            skip == IF char = CR /\ k + 1 <= Len(text) /\ text[k + 1] = LF
                    THEN 1 ELSE 0
        IN [st EXCEPT !.i = k + 1 + skip, !.currentLine = <<>>, !.lines = pushed]
    ELSE [st EXCEPT !.i = k + 1, !.currentLine = Append(@, char)]

RECURSIVE SplitLoop(_, _, _, _)
SplitLoop(text, st, lo, hi) ==
  IF st.i > hi \/ lo > hi THEN st
  ELSE IF lo = hi THEN SplitStep(text, st, lo)
  ELSE SplitLoop(text, SplitLoop(text, st, lo, (lo + hi) \div 2),
                 (lo + hi) \div 2 + 1, hi)

splitCSVLines(text) ==
  LET r == SplitLoop(text, [i |-> 1, inQuotes |-> FALSE, currentLine |-> <<>>,
                            lines |-> <<>>], 1, Len(text))
  IN IF Trim(r.currentLine) # <<>> THEN Append(r.lines, r.currentLine) ELSE r.lines

\* String.prototype.replace(/""/g, '"'): leftmost non-overlapping matches
RECURSIVE UnescapeQuotes(_)
UnescapeQuotes(s) ==
  IF Len(s) < 2 THEN s
  ELSE IF s[1] = QUOTE /\ s[2] = QUOTE
       THEN <<QUOTE>> \o UnescapeQuotes(SubSeq(s, 3, Len(s)))
       ELSE <<s[1]>> \o UnescapeQuotes(Tail(s))

cleanValue(value) ==
  LET stripped == IF value # <<>> /\ value[1] = QUOTE /\ value[Len(value)] = QUOTE
                  THEN SubSeq(value, 2, Len(value) - 1)
                  ELSE value
  IN Trim(UnescapeQuotes(stripped))

\* parseCSVLine, line 109: does this character end the field?
IsFieldEnd(char, inQuotes) == char = COMMA /\ ~inQuotes

(* parseCSVLine, the while loop of lines 98-117, written as SplitLoop is:   *)
(* ParseLineStep is the loop body at index k, ParseLineLoop composes the    *)
(* bodies of lo..hi in index order.                                         *)
ParseLineStep(line, st, k) ==
  IF k # st.i THEN st
  ELSE
    LET char == line[k] IN
    IF char = QUOTE THEN
      IF k + 1 <= Len(line) /\ line[k + 1] = QUOTE
      THEN [st EXCEPT !.i = k + 2, !.currentValue = Append(@, QUOTE)]
      ELSE [st EXCEPT !.i = k + 1, !.inQuotes = ~@]
    ELSE IF IsFieldEnd(char, st.inQuotes)
      THEN [st EXCEPT !.i = k + 1, !.currentValue = <<>>,
                      !.values = Append(@, cleanValue(st.currentValue))]
      ELSE [st EXCEPT !.i = k + 1, !.currentValue = Append(@, char)]

RECURSIVE ParseLineLoop(_, _, _, _)
ParseLineLoop(line, st, lo, hi) ==
  IF st.i > hi \/ lo > hi THEN st
  ELSE IF lo = hi THEN ParseLineStep(line, st, lo)
  ELSE ParseLineLoop(line, ParseLineLoop(line, st, lo, (lo + hi) \div 2),
                     (lo + hi) \div 2 + 1, hi)

\* lines 119-122: the last value is pushed after the loop
parseCSVLine(line) ==
  LET r == ParseLineLoop(line, [i |-> 1, inQuotes |-> FALSE, currentValue |-> <<>>,
                                values |-> <<>>], 1, Len(line))
  IN Append(r.values, cleanValue(r.currentValue))

(* A row object of parse: a sequence of <<key, value>> pairs with pairwise  *)
(* distinct keys in insertion order (a JavaScript object with string keys). *)
HasKey(row, key) == \E k \in 1..Len(row) : row[k][1] = key

\* row[key]
Get(row, key) ==
  IF HasKey(row, key)
  THEN row[CHOOSE k \in 1..Len(row) : row[k][1] = key][2]
  ELSE Undefined

\* row[key] = value
SetKey(row, key, value) ==
  IF HasKey(row, key)
  THEN [k \in 1..Len(row) |-> IF row[k][1] = key THEN <<key, value>> ELSE row[k]]
  ELSE Append(row, <<key, value>>)

\* Object.keys(row)
ObjectKeys(row) == [k \in 1..Len(row) |-> row[k][1]]

\* parse, lines 28-31: headers.forEach((header, index) => row[header] = values[index] || '')
RECURSIVE MakeRow(_, _, _, _)
MakeRow(hdrs, values, index, row) ==
  IF index > Len(hdrs) THEN row
  ELSE MakeRow(hdrs, values, index + 1,
               SetKey(row, hdrs[index],
                      IF index <= Len(values) THEN values[index] ELSE <<>>))

\* parse, the for loop of lines 20-34
RECURSIVE ParseRows(_, _, _, _)
ParseRows(lines, hdrs, i, acc) ==
  IF i > Len(lines) THEN acc
  ELSE
    LET line == Trim(lines[i]) IN
    IF line = <<>> THEN ParseRows(lines, hdrs, i + 1, acc)
    ELSE LET values == parseCSVLine(line) IN
         IF Len(values) = 0 THEN ParseRows(lines, hdrs, i + 1, acc)
         ELSE ParseRows(lines, hdrs, i + 1,
                        Append(acc, MakeRow(hdrs, values, 1, <<>>)))

parse(text) ==
  LET lines == splitCSVLines(text) IN
  IF Len(lines) = 0 THEN <<>>
  ELSE LET hdrs == parseCSVLine(lines[1]) IN
       IF Len(hdrs) = 0 THEN <<>>
       ELSE ParseRows(lines, hdrs, 2, <<>>)


(* validateStructure, lines 144-185.  An error string is modelled by its    *)
(* kind and the value interpolated into it.                                 *)
NormalizeHeaderNoCase(h) == Trim(h)
NormalizeHeader(h) == Trim(ToLowerCase(h))

\* lines 153-157
RECURSIVE EmptyHeaderErrors(_, _)
EmptyHeaderErrors(hdrs, index) ==
  IF index > Len(hdrs) THEN <<>>
  ELSE (IF Trim(hdrs[index]) = <<>>
        THEN <<[kind |-> "empty-header", at |-> index]>> ELSE <<>>)
       \o EmptyHeaderErrors(hdrs, index + 1)

\* lines 160-164: the Map headerCounts as a sequence of <<header, count>> in
\* insertion order
RECURSIVE HeaderCounts(_, _, _)
HeaderCounts(hdrs, index, counts) ==
  IF index > Len(hdrs) THEN counts
  ELSE LET n == NormalizeHeader(hdrs[index])
       IN HeaderCounts(hdrs, index + 1,
                       SetKey(counts, n, IF HasKey(counts, n)
                                         THEN Get(counts, n) + 1 ELSE 1))

\* lines 166-170
RECURSIVE DuplicateHeaderErrors(_, _)
DuplicateHeaderErrors(counts, k) ==
  IF k > Len(counts) THEN <<>>
  ELSE (IF counts[k][2] > 1
        THEN <<[kind |-> "duplicate-header", at |-> counts[k][1]]>> ELSE <<>>)
       \o DuplicateHeaderErrors(counts, k + 1)

\* lines 173-182
RECURSIVE MissingHeaderErrors(_, _, _)
MissingHeaderErrors(normalizedHeaders, normalizedExpected, k) ==
  IF k > Len(normalizedExpected) THEN <<>>
  ELSE (IF ~SeqIncludes(normalizedHeaders, normalizedExpected[k])
        THEN <<[kind |-> "missing-header", at |-> normalizedExpected[k]]>> ELSE <<>>)
       \o MissingHeaderErrors(normalizedHeaders, normalizedExpected, k + 1)

validateStructure(hdrs, expected) ==
  IF Len(hdrs) = 0 THEN <<[kind |-> "no-headers", at |-> 0]>>
  ELSE EmptyHeaderErrors(hdrs, 1)
       \o DuplicateHeaderErrors(HeaderCounts(hdrs, 1, <<>>), 1)
       \o (IF expected # NoExpected /\ Len(expected) > 0
           THEN MissingHeaderErrors(
                  [k \in 1..Len(hdrs) |-> NormalizeHeader(hdrs[k])],
                  [k \in 1..Len(expected) |-> NormalizeHeader(expected[k])], 1)
           ELSE <<>>)

(***************************************************************************)
(* DataPreprocessor (utils/dataPreprocessing.ts).  The file declares the   *)
(* class twice: the composite-id variant (lines 203-392), which reads      *)
(* listing_id, date, comments and neighbourhood_cleansed and derives the   *)
(* review id, and the review_id variant (lines 24-179), which reads        *)
(* review_id, created_at and raw_text.  A non-ASCII character is written   *)
(* by its code point ("U+20AC").                                           *)
(***************************************************************************)
K_listing_id == <<"l", "i", "s", "t", "i", "n", "g", "_", "i", "d">>
K_date == <<"d", "a", "t", "e">>
K_comments == <<"c", "o", "m", "m", "e", "n", "t", "s">>
K_neighbourhood_cleansed == <<"n", "e", "i", "g", "h", "b", "o", "u", "r", "h", "o", "o", "d", "_", "c", "l", "e", "a", "n", "s", "e", "d">>
K_review_id == <<"r", "e", "v", "i", "e", "w", "_", "i", "d">>
K_neighbourhood == <<"n", "e", "i", "g", "h", "b", "o", "u", "r", "h", "o", "o", "d">>
K_created_at == <<"c", "r", "e", "a", "t", "e", "d", "_", "a", "t">>
K_language == <<"l", "a", "n", "g", "u", "a", "g", "e">>
K_raw_text == <<"r", "a", "w", "_", "t", "e", "x", "t">>
K_needs_translation == <<"n", "e", "e", "d", "s", "_", "t", "r", "a", "n", "s", "l", "a", "t", "i", "o", "n">>

\* String(undefined) inside a template literal
S_undefined == <<"u", "n", "d", "e", "f", "i", "n", "e", "d">>
S_en == <<"e", "n">>
S_de == <<"d", "e">>
S_fr == <<"f", "r">>
S_es == <<"e", "s">>

\* !value for a string or undefined
Falsy(v) == v = Undefined \/ v = <<>>

\* `${value}`
TemplateString(v) == IF v = Undefined THEN S_undefined ELSE v

\* value || fallback
OrElse(v, fallback) == IF Falsy(v) THEN fallback ELSE v

Digits == <<"0", "1", "2", "3", "4", "5", "6", "7", "8", "9">>
IsDigit(c) == \E k \in 1..10 : Digits[k] = c
DigitVal(c) == (CHOOSE k \in 1..10 : Digits[k] = c) - 1
AllDigits(s, from, to) == \A k \in from..to : IsDigit(s[k])
TwoDigits(s, k) == DigitVal(s[k]) * 10 + DigitVal(s[k + 1])

IsLeapYear(y) == (y % 4 = 0 /\ y % 100 # 0) \/ y % 400 = 0
DaysInMonth(y, m) ==
  IF m = 2 THEN (IF IsLeapYear(y) THEN 29 ELSE 28)
  ELSE IF m \in {4, 6, 9, 11} THEN 30 ELSE 31

\* An instant is the number yyyymmdd of its UTC day (every instant the model
\* parses is a midnight); NaN is the time value of an Invalid Date.
NaN == 0 - 1

\* new Date(dateString) for "YYYY-MM-DD" (UTC) and "YYYY-MM-DD 00:00:00"
\* (local time, in an environment whose time zone is UTC); any other string
\* of the model is one the engine's parser rejects
ParseDate(s) ==
  IF /\ Len(s) \in {10, 19}
     /\ AllDigits(s, 1, 4) /\ s[5] = "-" /\ AllDigits(s, 6, 7)
     /\ s[8] = "-" /\ AllDigits(s, 9, 10)
     /\ Len(s) = 19 => SubSeq(s, 11, 19) = <<" ", "0", "0", ":", "0", "0", ":", "0", "0">>
  THEN LET y == TwoDigits(s, 1) * 100 + TwoDigits(s, 3)
           m == TwoDigits(s, 6)
           d == TwoDigits(s, 9)
       IN IF m \in 1..12 /\ d \in 1..DaysInMonth(y, m)
          THEN y * 10000 + m * 100 + d ELSE NaN
  ELSE NaN

GetFullYear(t) == t \div 10000

TwoChars(n) == <<Digits[(n \div 10) + 1], Digits[(n % 10) + 1]>>

\* Date.prototype.toISOString().split('T')[0]
ISODate(t) ==
  TwoChars(t \div 1000000) \o TwoChars((t \div 10000) % 100) \o <<"-">>
  \o TwoChars((t \div 100) % 100) \o <<"-">> \o TwoChars(t % 100)

\* new Date(): the day the program runs
CurrentDate == 20261101
\* new Date('2008-01-01')
MinDate == 20080101

\* validateDate of the composite-id variant, lines 230-240
validateDate(dateString) ==
  IF Falsy(dateString) THEN FALSE
  ELSE LET date == ParseDate(dateString) IN
       IF date = NaN THEN FALSE
       ELSE date >= MinDate /\ date <= CurrentDate

\* validateDate of the review_id variant, lines 71-76
validateDateReviewId(dateString) ==
  IF Falsy(dateString) THEN FALSE
  ELSE LET date == ParseDate(dateString) IN
       date # NaN /\ GetFullYear(date) > 1900 /\ GetFullYear(date) < 2030

\* standardizeDate of the composite-id variant, lines 242-245
standardizeDate(dateString) == ISODate(ParseDate(dateString))

\* standardizeDate of the review_id variant, lines 78-81
standardizeDateReviewId(dateString) ==
  ISODate(ParseDate(dateString)) \o <<" ", "0", "0", ":", "0", "0", ":", "0", "0">>

\* /\w/
WordChars ==
  {UpperCase[k] : k \in 1..26} \cup {LowerCase[k] : k \in 1..26}
  \cup {Digits[k] : k \in 1..10} \cup {"_"}

\* the characters /[^\w\s.,!?;:()\-'"]/ does not match
KeptChars ==
  WordChars \cup WhiteSpace \cup {".", ",", "!", "?", ";", ":", "(", ")", "-", "'", QUOTE}

\* replace(/\s+/g, ' ')
RECURSIVE CollapseWhiteSpace(_)
CollapseWhiteSpace(s) ==
  IF s = <<>> THEN <<>>
  ELSE IF Head(s) \in WhiteSpace
       THEN <<SPACE>> \o CollapseWhiteSpace(TrimStart(s))
       ELSE <<Head(s)>> \o CollapseWhiteSpace(Tail(s))

\* replace(/\s/g, '')
RECURSIVE RemoveWhiteSpace(_)
RemoveWhiteSpace(s) ==
  IF s = <<>> THEN <<>>
  ELSE (IF Head(s) \in WhiteSpace THEN <<>> ELSE <<Head(s)>>)
       \o RemoveWhiteSpace(Tail(s))

\* replace(/[^\w\s.,!?;:()\-'"]/g, '')
RECURSIVE RemoveOtherChars(_)
RemoveOtherChars(s) ==
  IF s = <<>> THEN <<>>
  ELSE (IF Head(s) \in KeptChars THEN <<Head(s)>> ELSE <<>>)
       \o RemoveOtherChars(Tail(s))

\* cleanText of the composite-id variant, lines 247-253
cleanText(text) ==
  IF Falsy(text) THEN <<>>
  ELSE RemoveOtherChars(CollapseWhiteSpace(Trim(text)))

StartsWith(s, pat) == Len(s) >= Len(pat) /\ SubSeq(s, 1, Len(pat)) = pat

\* replace(/pat/g, rep) for a literal pattern
RECURSIVE ReplaceAll(_, _, _)
ReplaceAll(s, pat, rep) ==
  IF s = <<>> THEN <<>>
  ELSE IF StartsWith(s, pat)
       THEN rep \o ReplaceAll(SubSeq(s, Len(pat) + 1, Len(s)), pat, rep)
       ELSE <<Head(s)>> \o ReplaceAll(Tail(s), pat, rep)

\* the replacements of lines 59-68, in order
Mojibake == <<
  <<<<"U+00E2", "U+20AC", "U+2122">>, <<"'">>>>,
  <<<<"U+00E2", "U+20AC", "U+0153">>, <<QUOTE>>>>,
  <<<<"U+00E2", "U+20AC", "U+009D">>, <<QUOTE>>>>,
  <<<<"U+00E2", "U+20AC", QUOTE>>, <<"U+2014">>>>,
  <<<<"U+00C3", "U+00A1">>, <<"U+00E1">>>>,
  <<<<"U+00C3", "U+00A9">>, <<"U+00E9">>>>,
  <<<<"U+00C3", "U+00AD">>, <<"U+00ED">>>>,
  <<<<"U+00C3", "U+00B3">>, <<"U+00F3">>>>,
  <<<<"U+00C3", "U+00BA">>, <<"U+00FA">>>>,
  <<<<"U+00C3", "U+00B1">>, <<"U+00F1">>>> >>

RECURSIVE FixEncoding(_, _)
FixEncoding(s, k) ==
  IF k > Len(Mojibake) THEN s
  ELSE FixEncoding(ReplaceAll(s, Mojibake[k][1], Mojibake[k][2]), k + 1)

\* cleanText of the review_id variant, lines 53-69
cleanTextReviewId(text) ==
  IF Falsy(text) THEN <<>>
  ELSE FixEncoding(Trim(text), 1)

\* String.prototype.includes
Includes(s, w) == \E k \in 0..(Len(s) - Len(w)) : SubSeq(s, k + 1, k + Len(w)) = w

germanWords == <<<<"d", "e", "r">>, <<"d", "i", "e">>, <<"d", "a", "s">>, <<"u", "n", "d">>, <<"i", "s", "t">>, <<"w", "a", "r">>, <<"s", "e", "h", "r">>, <<"g", "u", "t">>, <<"s", "c", "h", "U+00F6", "n">>>>
frenchWords == <<<<"l", "e">>, <<"l", "a">>, <<"l", "e", "s">>, <<"e", "t">>, <<"e", "s", "t">>, <<"U+00E9", "t", "a", "i", "t">>, <<"t", "r", "U+00E8", "s">>, <<"b", "i", "e", "n">>, <<"b", "e", "a", "u">>>>
spanishWords == <<<<"e", "l">>, <<"l", "a">>, <<"l", "o", "s">>, <<"y">>, <<"e", "s">>, <<"e", "r", "a">>, <<"m", "u", "y">>, <<"b", "i", "e", "n">>, <<"b", "u", "e", "n", "o">>>>

WordHits(lowerText, words) ==
  Cardinality({k \in 1..Len(words) : Includes(lowerText, words[k])})

\* detectLanguage, lines 255-286
detectLanguage(text) ==
  IF Falsy(text) THEN S_en
  ELSE LET lowerText == ToLowerCase(text) IN
       IF WordHits(lowerText, germanWords) >= 2 THEN S_de
       ELSE IF WordHits(lowerText, frenchWords) >= 2 THEN S_fr
       ELSE IF WordHits(lowerText, spanishWords) >= 2 THEN S_es
       ELSE S_en

\* the report of lines 289-299 (and 84-94)
NewReport(n) ==
  [originalRows |-> n, cleanedRows |-> 0, removedRows |-> 0,
   duplicatesRemoved |-> 0, invalidDatesRemoved |-> 0, missingDataRemoved |-> 0,
   languageDistribution |-> <<>>, nonEnglishCount |-> 0, errors |-> <<>>]

\* report.languageDistribution[lang] = (report.languageDistribution[lang] || 0) + 1
CountLanguage(dist, lang) ==
  SetKey(dist, lang, IF HasKey(dist, lang) THEN Get(dist, lang) + 1 ELSE 1)

(* An array of row objects (rawData) is an array of object references:     *)
(* element k is <<ref, object>>.                                            *)
(* Every caller builds a fresh object per row, so the references of one     *)
(* array are pairwise distinct; indexOf compares references.                *)
RefOf(raw, i) == raw[i][1]
RowOf(raw, i) == raw[i][2]

\* rawData.indexOf(row), 0-based
IndexOf(raw, ref) ==
  (CHOOSE k \in 1..Len(raw) :
     raw[k][1] = ref /\ \A j \in 1..(k - 1) : raw[j][1] # ref) - 1

\* line 316: the derived review id
ReviewIdOf(row) ==
  TemplateString(Get(row, K_listing_id)) \o <<"_">>
  \o TemplateString(Get(row, K_date)) \o <<"_">>
  \o RemoveWhiteSpace(SubSeq(OrElse(Get(row, K_comments), <<>>), 1,
       IF Len(OrElse(Get(row, K_comments), <<>>)) < 10
       THEN Len(OrElse(Get(row, K_comments), <<>>)) ELSE 10))

\* line 309
MissingData(row) == Falsy(Get(row, K_listing_id)) \/ Falsy(Get(row, K_comments))
\* line 104
MissingDataReviewId(row) == Falsy(Get(row, K_review_id)) \/ Falsy(Get(row, K_raw_text))

\* lines 319 and 111: the duplicate check, skipped for a row already failed
IsDuplicateUnguarded(shouldRemove, seenReviewIds, id) == id \in seenReviewIds
IsDuplicate(shouldRemove, seenReviewIds, id) == ~shouldRemove /\ id \in seenReviewIds

\* lines 326 and 118: the date check, skipped for a row already failed
IsInvalidDateUnguarded(shouldRemove, dateOk) == ~dateOk
IsInvalidDate(shouldRemove, dateOk) == ~shouldRemove /\ ~dateOk

\* a dropped row whose identifier is remembered all the same
DropRowRemembered(st, raw, i, missing, duplicate, invalid) ==
  [st EXCEPT
     !.seenReviewIds = @ \cup {ReviewIdOf(RowOf(raw, i))},
     !.report = [@ EXCEPT
        !.missingDataRemoved = @ + (IF missing THEN 1 ELSE 0),
        !.duplicatesRemoved = @ + (IF duplicate THEN 1 ELSE 0),
        !.invalidDatesRemoved = @ + (IF invalid THEN 1 ELSE 0),
        !.removedRows = @ + 1,
        !.errors = Append(@, [row |-> IndexOf(raw, RefOf(raw, i)) + 1,
                              reason |-> IF invalid THEN "invalid-date"
                                         ELSE IF duplicate THEN "duplicate"
                                         ELSE "missing"])]]

\* lines 332-336 (and 124-128): the row is dropped and reported
DropRow(st, raw, i, missing, duplicate, invalid) ==
  [st EXCEPT
     !.report = [@ EXCEPT
        !.missingDataRemoved = @ + (IF missing THEN 1 ELSE 0),
        !.duplicatesRemoved = @ + (IF duplicate THEN 1 ELSE 0),
        !.invalidDatesRemoved = @ + (IF invalid THEN 1 ELSE 0),
        !.removedRows = @ + 1,
        !.errors = Append(@, [row |-> IndexOf(raw, RefOf(raw, i)) + 1,
                              reason |-> IF invalid THEN "invalid-date"
                                         ELSE IF duplicate THEN "duplicate"
                                         ELSE "missing"])]]

\* lines 352-361 (and 141-150): the cleaned row is kept and counted
KeepRow(st, cleanedRow, id, nonEnglish) ==
  [st EXCEPT
     !.report = [@ EXCEPT
        !.languageDistribution = CountLanguage(@, Get(cleanedRow, K_language)),
        !.nonEnglishCount = @ + (IF nonEnglish THEN 1 ELSE 0)],
     !.seenReviewIds = @ \cup {id},
     !.cleanedData = Append(@, cleanedRow)]

\* lines 342-350
CleanedRow(row, reviewId, detectedLanguage) ==
  << <<K_review_id, reviewId>>,
     <<K_listing_id, Trim(Get(row, K_listing_id))>>,
     <<K_neighbourhood,
       IF Get(row, K_neighbourhood_cleansed) = Undefined THEN <<>>
       ELSE OrElse(Trim(Get(row, K_neighbourhood_cleansed)), <<>>)>>,
     <<K_created_at, standardizeDate(Get(row, K_date))>>,
     <<K_language, detectedLanguage>>,
     <<K_raw_text, cleanText(Get(row, K_comments))>>,
     <<K_needs_translation, detectedLanguage # S_en>> >>

\* the loop body of the composite-id variant, lines 304-362
ProcessRow(st, raw, i) ==
  LET row == RowOf(raw, i)
      missing == MissingData(row)
      reviewId == ReviewIdOf(row)
      duplicate == IsDuplicate(missing, st.seenReviewIds, reviewId)
      invalid == IsInvalidDate(missing \/ duplicate, validateDate(Get(row, K_date)))
  IN IF missing \/ duplicate \/ invalid
     THEN DropRow(st, raw, i, missing, duplicate, invalid)
     ELSE LET lang == detectLanguage(Get(row, K_comments)) IN
          KeepRow(st, CleanedRow(row, reviewId, lang), reviewId, lang # S_en)

\* lines 131-139
CleanedRowReviewId(row) ==
  << <<K_review_id, Trim(Get(row, K_review_id))>>,
     <<K_listing_id, Trim(Get(row, K_listing_id))>>,
     <<K_neighbourhood, cleanTextReviewId(OrElse(Get(row, K_neighbourhood), <<>>))>>,
     <<K_created_at, standardizeDateReviewId(Get(row, K_created_at))>>,
     <<K_language, Trim(ToLowerCase(OrElse(Get(row, K_language), S_en)))>>,
     <<K_raw_text, cleanTextReviewId(Get(row, K_raw_text))>>,
     <<K_needs_translation, ToLowerCase(OrElse(Get(row, K_language), S_en)) # S_en>> >>

\* the loop body of the review_id variant, lines 99-151; row.listing_id.toString()
\* on an absent listing_id throws a TypeError out of preprocessData
ProcessRowReviewId(st, raw, i) ==
  LET row == RowOf(raw, i)
      missing == MissingDataReviewId(row)
      duplicate == IsDuplicate(missing, st.seenReviewIds, Get(row, K_review_id))
      invalid == IsInvalidDate(missing \/ duplicate,
                               validateDateReviewId(Get(row, K_created_at)))
  IN IF missing \/ duplicate \/ invalid
     THEN DropRow(st, raw, i, missing, duplicate, invalid)
     ELSE IF Get(row, K_listing_id) = Undefined
     THEN [st EXCEPT !.threw = TRUE]
     ELSE LET cleanedRow == CleanedRowReviewId(row) IN
          KeepRow(st, cleanedRow, Get(cleanedRow, K_review_id),
                  Get(cleanedRow, K_needs_translation))

\* for (const row of rawData), either variant
RECURSIVE PreprocessLoop(_, _, _, _)
PreprocessLoop(which, raw, i, st) ==
  IF i > Len(raw) \/ st.threw THEN st
  ELSE PreprocessLoop(which, raw, i + 1,
                      IF which = "composite" THEN ProcessRow(st, raw, i)
                      ELSE ProcessRowReviewId(st, raw, i))

\* preprocessData, lines 288-366 (which = "composite") and 83-155 ("review_id")
preprocessData(which, raw) ==
  LET st == PreprocessLoop(which, raw, 1,
              [report |-> NewReport(Len(raw)), cleanedData |-> <<>>,
               seenReviewIds |-> {}, threw |-> FALSE])
  IN [cleanedData |-> st.cleanedData,
      report |-> [st.report EXCEPT !.cleanedRows = Len(st.cleanedData)],
      threw |-> st.threw]


(***************************************************************************)
(* SentimentAnalyzer (utils/sentimentAnalysis.ts).  A JavaScript number    *)
(* that is not an integer is modelled as a fraction [num, den] with        *)
(* den > 0; the sums of the analyzer are sums of 1 and 1.5 and are exact   *)
(* in floating point.                                                      *)
(***************************************************************************)
positiveWords ==
  << <<"a", "m", "a", "z", "i", "n", "g">>,
     <<"a", "w", "e", "s", "o", "m", "e">>,
     <<"e", "x", "c", "e", "l", "l", "e", "n", "t">>,
     <<"f", "a", "n", "t", "a", "s", "t", "i", "c">>,
     <<"g", "r", "e", "a", "t">>,
     <<"w", "o", "n", "d", "e", "r", "f", "u", "l">>,
     <<"p", "e", "r", "f", "e", "c", "t">>,
     <<"b", "e", "a", "u", "t", "i", "f", "u", "l">>,
     <<"c", "l", "e", "a", "n">>,
     <<"c", "o", "m", "f", "o", "r", "t", "a", "b", "l", "e">>,
     <<"f", "r", "i", "e", "n", "d", "l", "y">>,
     <<"h", "e", "l", "p", "f", "u", "l">>, <<"l", "o", "v", "e", "l", "y">>,
     <<"n", "i", "c", "e">>, <<"g", "o", "o", "d">>, <<"b", "e", "s", "t">>,
     <<"e", "n", "j", "o", "y", "e", "d">>,
     <<"r", "e", "c", "o", "m", "m", "e", "n", "d">>, <<"l", "o", "v", "e">>,
     <<"c", "o", "n", "v", "e", "n", "i", "e", "n", "t">>,
     <<"s", "p", "a", "c", "i", "o", "u", "s">>, <<"c", "o", "z", "y">>,
     <<"s", "t", "u", "n", "n", "i", "n", "g">>,
     <<"i", "n", "c", "r", "e", "d", "i", "b", "l", "e">>,
     <<"s", "u", "p", "e", "r", "b">> >>

negativeWords ==
  << <<"t", "e", "r", "r", "i", "b", "l", "e">>, <<"a", "w", "f", "u", "l">>,
     <<"h", "o", "r", "r", "i", "b", "l", "e">>, <<"b", "a", "d">>,
     <<"w", "o", "r", "s", "t">>, <<"d", "i", "r", "t", "y">>,
     <<"n", "o", "i", "s", "y">>,
     <<"u", "n", "c", "o", "m", "f", "o", "r", "t", "a", "b", "l", "e">>,
     <<"r", "u", "d", "e">>, <<"b", "r", "o", "k", "e", "n">>,
     <<"d", "i", "s", "a", "p", "p", "o", "i", "n", "t", "i", "n", "g">>,
     <<"p", "o", "o", "r">>, <<"u", "g", "l", "y">>,
     <<"e", "x", "p", "e", "n", "s", "i", "v", "e">>,
     <<"c", "r", "a", "m", "p", "e", "d">>, <<"c", "o", "l", "d">>,
     <<"h", "o", "t">>, <<"s", "m", "e", "l", "l", "y">>,
     <<"d", "i", "s", "g", "u", "s", "t", "i", "n", "g">>,
     <<"u", "n", "c", "l", "e", "a", "n">>,
     <<"o", "u", "t", "d", "a", "t", "e", "d">>,
     <<"o", "v", "e", "r", "p", "r", "i", "c", "e", "d">>,
     <<"u", "n", "f", "r", "i", "e", "n", "d", "l", "y">>,
     <<"u", "n", "r", "e", "l", "i", "a", "b", "l", "e">> >>

intensifiers ==
  << <<"v", "e", "r", "y">>, <<"e", "x", "t", "r", "e", "m", "e", "l", "y">>,
     <<"i", "n", "c", "r", "e", "d", "i", "b", "l", "y">>,
     <<"a", "b", "s", "o", "l", "u", "t", "e", "l", "y">>,
     <<"t", "o", "t", "a", "l", "l", "y">>,
     <<"c", "o", "m", "p", "l", "e", "t", "e", "l", "y">>,
     <<"q", "u", "i", "t", "e">>, <<"r", "e", "a", "l", "l", "y">>,
     <<"s", "o">>, <<"t", "o", "o">>, <<"h", "i", "g", "h", "l", "y">> >>

negations ==
  << <<"n", "o", "t">>, <<"n", "o">>, <<"n", "e", "v", "e", "r">>,
     <<"n", "o", "t", "h", "i", "n", "g">>,
     <<"n", "o", "w", "h", "e", "r", "e">>, <<"n", "o", "b", "o", "d", "y">>,
     <<"n", "o", "n", "e">>, <<"n", "e", "i", "t", "h", "e", "r">>,
     <<"n", "o", "r">>, <<"h", "a", "r", "d", "l", "y">>,
     <<"b", "a", "r", "e", "l", "y">>,
     <<"s", "c", "a", "r", "c", "e", "l", "y">> >>

Frac(n, d) == [num |-> n, den |-> d]
FracLess(a, b) == a.num * b.den < b.num * a.den
FracEq(a, b) == a.num * b.den = b.num * a.den
\* the same number in lowest terms
RECURSIVE GCD(_, _)
GCD(a, b) == IF b = 0 THEN a ELSE GCD(b, a % b)
Reduce(a) ==
  LET g == GCD(IF a.num < 0 THEN 0 - a.num ELSE a.num, a.den)
  IN Frac(a.num \div g, a.den \div g)
FracAdd(a, b) == Reduce(Frac(a.num * b.den + b.num * a.den, a.den * b.den))
FracSub(a, b) == Reduce(Frac(a.num * b.den - b.num * a.den, a.den * b.den))
FracMul(a, b) == Reduce(Frac(a.num * b.num, a.den * b.den))
\* a / n for an integer n > 0
FracDiv(a, n) == Reduce(Frac(a.num, a.den * n))
\* Math.min, Math.max, Math.abs
MathMin(a, b) == IF FracLess(b, a) THEN b ELSE a
MathMax(a, b) == IF FracLess(a, b) THEN b ELSE a
MathAbs(a) == Frac(IF a.num < 0 THEN 0 - a.num ELSE a.num, a.den)

\* replace(/[^\w\s]/g, ' ')
ReplaceNonWord(s) ==
  [k \in 1..Len(s) |-> IF s[k] \in WordChars \cup WhiteSpace THEN s[k] ELSE SPACE]

(* split(/\s+/): the pieces of s between its maximal runs of white space,   *)
(* in order; a run at the start or at the end leaves an empty piece there.  *)
RunStarts(s) ==
  {i \in 1..Len(s) : s[i] \in WhiteSpace /\ (i = 1 \/ s[i - 1] \notin WhiteSpace)}
RunEnd(s, i) ==
  CHOOSE j \in i..Len(s) :
    /\ \A h \in i..j : s[h] \in WhiteSpace
    /\ (j = Len(s) \/ s[j + 1] \notin WhiteSpace)
NthRun(s, k) ==
  CHOOSE i \in RunStarts(s) : Cardinality({h \in RunStarts(s) : h < i}) = k - 1
SplitWhiteSpace(s) ==
  LET n == Cardinality(RunStarts(s)) IN
  [k \in 1..(n + 1) |->
     SubSeq(s, IF k = 1 THEN 1 ELSE RunEnd(s, NthRun(s, k - 1)) + 1,
               IF k = n + 1 THEN Len(s) ELSE NthRun(s, k) - 1)]

NonEmptyWord(word) == Len(word) > 0

\* lines 54-57: the words of the text
Words(sentenceText) ==
  SelectSeq(SplitWhiteSpace(ReplaceNonWord(ToLowerCase(sentenceText))), NonEmptyWord)

\* lines 68-72: the sentiment of a word
SentimentOf(word) ==
  IF SeqIncludes(positiveWords, word) THEN 1
  ELSE IF SeqIncludes(negativeWords, word) THEN 0 - 1
  ELSE 0

\* lines 76-78: the intensity of the word at index i (1-based)
IntensityAt(words, i) ==
  IF i > 1 /\ SeqIncludes(intensifiers, words[i - 1]) THEN Frac(3, 2) ELSE Frac(1, 1)

\* line 82: for (let j = Math.max(0, i - 3); j < i; j++)
NegationLookback == 3

\* lines 81-87: negated, with the window reaching back to the first word
NegatedAnywhere(words, i) ==
  \E j \in 1..(i - 1) : SeqIncludes(negations, words[j])
NegatedAt(words, i) ==
  \E j \in (IF i - NegationLookback > 1 THEN i - NegationLookback ELSE 1)..(i - 1) :
    SeqIncludes(negations, words[j])

\* lines 89-94: what the word at index i adds to score
ContributionAt(words, i) ==
  FracMul(Frac(IF NegatedAt(words, i) THEN 0 - SentimentOf(words[i])
               ELSE SentimentOf(words[i]), 1),
          IntensityAt(words, i))

\* the for loop of lines 62-96 over the locals score and wordCount
RECURSIVE AnalyzeLoop(_, _, _)
AnalyzeLoop(words, i, st) ==
  IF i > Len(words) THEN st
  ELSE IF SentimentOf(words[i]) # 0
       THEN AnalyzeLoop(words, i + 1,
                        [score |-> FracAdd(st.score, ContributionAt(words, i)),
                         wordCount |-> st.wordCount + 1])
       ELSE AnalyzeLoop(words, i + 1, st)

\* line 100, without the clamp
ClampNot(x) == x
\* line 100: Math.max(-1, Math.min(1, normalizedScore))
Clamp(x) == MathMax(Frac(0 - 1, 1), MathMin(Frac(1, 1), x))

\* lines 105-113
LabelOf(clampedScore) ==
  IF FracLess(Frac(1, 10), clampedScore) THEN "positive"
  ELSE IF FracLess(clampedScore, Frac(0 - 1, 10)) THEN "negative"
  ELSE "neutral"

\* the locals score and wordCount after the loop (0 when the text is empty)
AnalyzeLocals(sentenceText) ==
  IF Falsy(sentenceText) \/ Len(Trim(sentenceText)) = 0
  THEN [score |-> Frac(0, 1), wordCount |-> 0]
  ELSE AnalyzeLoop(Words(sentenceText), 1, [score |-> Frac(0, 1), wordCount |-> 0])

\* analyzeSentiment, lines 49-120
analyzeSentiment(sentenceText) ==
  IF Falsy(sentenceText) \/ Len(Trim(sentenceText)) = 0
  THEN [score |-> Frac(0, 1), magnitude |-> Frac(0, 1), label |-> "neutral"]
  ELSE LET st == AnalyzeLocals(sentenceText)
           normalizedScore == IF st.wordCount > 0 THEN FracDiv(st.score, st.wordCount)
                              ELSE Frac(0, 1)
           clampedScore == Clamp(normalizedScore)
       IN [score |-> clampedScore, magnitude |-> MathAbs(clampedScore),
           label |-> LabelOf(clampedScore)]

(***************************************************************************)
(* SentimentAnalyzer.detectAnomalies (unnamed/part_007, lines 183-297).    *)
(* Math.sqrt is not computed: a standard deviation is carried as its       *)
(* square (stdDevSq), and every comparison the code makes with a standard  *)
(* deviation is made between the squares, which orders the same numbers    *)
(* the same way.  The z-score is carried as its square, or as NaN for 0/0. *)
(***************************************************************************)

\* validateDate of SentimentAnalyzer, lines 124-132
\* The day before an instant's UTC day.
PrevDay(t) ==
  LET y == t \div 10000
      m == (t \div 100) % 100
      d == t % 100
  IN IF d > 1 THEN t - 1
     ELSE IF m > 1 THEN y * 10000 + (m - 1) * 100 + DaysInMonth(y, m - 1)
     ELSE (y - 1) * 10000 + 1231

\* The local calendar day that getFullYear and getMonth read from
\* new Date(dateString).  "YYYY-MM-DD" is midnight UTC: in a time zone west of
\* UTC that instant still belongs to the day before, in UTC and to the east
\* it belongs to the same day.  "YYYY-MM-DD 00:00:00" is local midnight.
LocalDay(dateString) ==
  LET t == ParseDate(dateString) IN
    IF t = NaN THEN NaN
    ELSE IF timeZone = "west" /\ Len(dateString) = 10 THEN PrevDay(t)
    ELSE t

\* Date.prototype.getMonth of a local day (0 is January)
GetMonth(t) == ((t \div 100) % 100) - 1

validateDateSentiment(dateString) ==
  IF Falsy(dateString) THEN FALSE
  ELSE LET date == ParseDate(dateString)
           year == GetFullYear(LocalDay(dateString))
       IN date # NaN /\ year >= 2008 /\ year <= GetFullYear(CurrentDate)

\* line 185: data.filter(row => this.validateDate(row.created_at))
HasValidDate(row) == validateDateSentiment(row.created_at)
ValidData(rows) == SelectSeq(rows, HasValidDate)

\* `undefined` where a number may stand
NoNumber == [undefined |-> TRUE]

\* lines 191-196: row.sentiment.score
ScoreOf(row) ==
  IF row.sentiment_score # NoNumber THEN row.sentiment_score
  ELSE analyzeSentiment(row.raw_text).score

\* array.reduce((sum, s) => sum + s, 0)
RECURSIVE SumOf(_, _)
SumOf(scores, n) ==
  IF n = 0 THEN Frac(0, 1) ELSE FracAdd(SumOf(scores, n - 1), scores[n])

\* lines 209 and 223: the mean of the scores
MeanOf(scores) == FracDiv(SumOf(scores, Len(scores)), Len(scores))

\* lines 210 and 224: the variance of the scores
VarianceOf(scores) ==
  LET mean == MeanOf(scores)
      squares == [k \in 1..Len(scores) |->
                    FracMul(FracSub(scores[k], mean), FracSub(scores[k], mean))]
  IN FracDiv(SumOf(squares, Len(squares)), Len(squares))

\* lines 198-203: neighbourhoodGroups[neighbourhood]
GroupOf(valid, neighbourhood) ==
  SelectSeq(valid, LAMBDA r : r.neighbourhood = neighbourhood)
ScoresOf(rows) == [k \in 1..Len(rows) |-> ScoreOf(rows[k])]

\* line 215: Math.max(stdDev, 0.2), on the squares
StdDevFloorSq == Frac(4, 100)

\* lines 206-219: neighbourhoodBaselines[neighbourhood]
NeighbourhoodBaseline(valid, neighbourhood) ==
  LET reviewsOf == GroupOf(valid, neighbourhood) IN
  [mean |-> MeanOf(ScoresOf(reviewsOf)),
   stdDevSq |-> MathMax(VarianceOf(ScoresOf(reviewsOf)), StdDevFloorSq),
   count |-> Len(reviewsOf)]

\* lines 222-225 and 230: the dataset-wide baseline
OverallBaseline(valid) ==
  [mean |-> MeanOf(ScoresOf(valid)), stdDevSq |-> VarianceOf(ScoresOf(valid)),
   count |-> Len(valid)]

\* line 228: neighbourhoodGroups[row.neighbourhood].length >= 5
MinGroupSize == 5

\* lines 228-230: the baseline of a row
BaselineOf(valid, row) ==
  IF Len(GroupOf(valid, row.neighbourhood)) >= MinGroupSize
  THEN NeighbourhoodBaseline(valid, row.neighbourhood)
  ELSE OverallBaseline(valid)

\* lines 232-233: zScore = sentimentDeviation / baseline.stdDev, as its
\* square; 0/0 is NaN and x/0 is Infinity
ZScoreOf(score, baseline) ==
  LET dev == FracSub(score, baseline.mean)
      devSq == FracMul(dev, dev)
  IN IF baseline.stdDevSq.num = 0
     THEN IF devSq.num = 0 THEN [kind |-> "NaN"] ELSE [kind |-> "Infinity"]
     ELSE [kind |-> "z",
           square |-> Reduce(Frac(devSq.num * baseline.stdDevSq.den,
                                  devSq.den * baseline.stdDevSq.num))]

\* line 236: the anomaly_score of the row if it has one, otherwise zScore
AnomalyScoreOf(row, baseline) ==
  IF row.anomaly_score # NoNumber
  THEN [kind |-> "given", value |-> row.anomaly_score]
  ELSE ZScoreOf(ScoreOf(row), baseline)

\* anomalyScore > threshold, for a threshold >= 0; false for NaN
Exceeds(anomalyScore, threshold) ==
  CASE anomalyScore.kind = "NaN" -> FALSE
    [] anomalyScore.kind = "Infinity" -> TRUE
    [] anomalyScore.kind = "given" -> FracLess(threshold, anomalyScore.value)
    [] anomalyScore.kind = "z" ->
         FracLess(FracMul(threshold, threshold), anomalyScore.square)

\* line 243: score < baseline.mean - (1.5 * baseline.stdDev)
BelowBand(score, baseline) ==
  LET d == FracSub(baseline.mean, score) IN
  d.num > 0 /\ FracLess(FracMul(Frac(9, 4), baseline.stdDevSq), FracMul(d, d))

\* line 246: score > baseline.mean + (1.5 * baseline.stdDev)
AboveBand(score, baseline) ==
  LET d == FracSub(score, baseline.mean) IN
  d.num > 0 /\ FracLess(FracMul(Frac(9, 4), baseline.stdDevSq), FracMul(d, d))

\* a type decided on a band of 3 standard deviations
AnomalyTypeOfWideBand(score, baseline) ==
  LET d == FracSub(score, baseline.mean)
      outside == FracLess(FracMul(Frac(9, 1), baseline.stdDevSq), FracMul(d, d))
  IN IF d.num < 0 /\ outside THEN "sentiment_negative"
     ELSE IF d.num > 0 /\ outside THEN "sentiment_positive"
     ELSE "sentiment_neutral"

\* lines 243-252: anomalyType
AnomalyTypeOf(score, baseline) ==
  IF BelowBand(score, baseline) THEN "sentiment_negative"
  ELSE IF AboveBand(score, baseline) THEN "sentiment_positive"
  ELSE "sentiment_neutral"

\* line 266: row.raw_text.length < 15
ShortTextLength == 15

\* line 239, with >= for >
PassesGateOrEqual(anomalyScore) ==
  \/ Exceeds(anomalyScore, Frac(2, 1))
  \/ anomalyScore.kind = "z" /\ FracEq(anomalyScore.square, Frac(4, 1))
  \/ anomalyScore.kind = "given" /\ FracEq(anomalyScore.value, Frac(2, 1))
\* line 239: anomalyScore > 2.0
PassesGate(anomalyScore) == Exceeds(anomalyScore, Frac(2, 1))

\* lines 227-292: the records pushed for one row, none or one
\* the three tests made one after the other instead of as one chain
AnomaliesOfRowIndependent(valid, row) ==
  LET baseline == BaselineOf(valid, row)
      score == ScoreOf(row)
      anomalyScore == AnomalyScoreOf(row, baseline)
      record(type) == [review_id |-> row.review_id, type |-> type,
                       neighbourhood |-> row.neighbourhood,
                       created_at |-> row.created_at,
                       sentiment_score |-> score, anomaly_score |-> anomalyScore]
  IN (IF PassesGate(anomalyScore) THEN <<record(AnomalyTypeOf(score, baseline))>> ELSE <<>>)
     \o (IF Len(row.raw_text) < ShortTextLength THEN <<record("suspicious")>> ELSE <<>>)
     \o (IF row.language # S_en /\ Exceeds(anomalyScore, Frac(3, 2))
         THEN <<record("language")>> ELSE <<>>)

AnomaliesOfRow(valid, row) ==
  LET baseline == BaselineOf(valid, row)
      score == ScoreOf(row)
      anomalyScore == AnomalyScoreOf(row, baseline)
      record(type) == [review_id |-> row.review_id, type |-> type,
                       neighbourhood |-> row.neighbourhood,
                       created_at |-> row.created_at,
                       sentiment_score |-> score, anomaly_score |-> anomalyScore]
  IN IF PassesGate(anomalyScore) THEN <<record(AnomalyTypeOf(score, baseline))>>
     ELSE IF Len(row.raw_text) < ShortTextLength THEN <<record("suspicious")>>
     ELSE IF row.language # S_en /\ Exceeds(anomalyScore, Frac(3, 2))
          THEN <<record("language")>>
     ELSE <<>>

\* dataWithSentiment.forEach, line 227
RECURSIVE DetectLoop(_, _)
DetectLoop(valid, n) ==
  IF n = 0 THEN <<>>
  ELSE DetectLoop(valid, n - 1) \o AnomaliesOfRow(valid, valid[n])

\* detectAnomalies, lines 183-297
detectAnomalies(rows) ==
  LET valid == ValidData(rows) IN
  IF Len(valid) = 0 THEN <<>> ELSE DetectLoop(valid, Len(valid))

(***************************************************************************)
(* SentimentAnalyzer.calculateTimelineSentiment (sentimentAnalysis.ts      *)
(* lines 132-177 and 228-251; the later version of the file has the same   *)
(* text).                                                                  *)
(***************************************************************************)

\* lines 228-251: calculateAverageSentiment
RECURSIVE SumScores(_, _)
SumScores(texts, k) ==
  IF k = 0 THEN Frac(0, 1)
  ELSE FracAdd(SumScores(texts, k - 1), analyzeSentiment(texts[k]).score)

RECURSIVE SumMagnitudes(_, _)
SumMagnitudes(texts, k) ==
  IF k = 0 THEN Frac(0, 1)
  ELSE FracAdd(SumMagnitudes(texts, k - 1), analyzeSentiment(texts[k]).magnitude)

calculateAverageSentiment(texts) ==
  IF Len(texts) = 0
  THEN [score |-> Frac(0, 1), magnitude |-> Frac(0, 1), label |-> "neutral"]
  ELSE LET avgScore == FracDiv(SumScores(texts, Len(texts)), Len(texts))
           avgMagnitude == FracDiv(SumMagnitudes(texts, Len(texts)), Len(texts))
       IN [score |-> avgScore, magnitude |-> avgMagnitude, label |-> LabelOf(avgScore)]

\* String(year) of a four-digit year, and String(n).padStart(2, '0')
YearString(y) == TwoChars(y \div 100) \o TwoChars(y % 100)
PadStart2(n) == TwoChars(n)

\* line 140: the key of a row's month, from the local year and month
MonthKeyOf(row) ==
  LET date == LocalDay(row.created_at) IN
    YearString(GetFullYear(date)) \o <<"-">> \o PadStart2(GetMonth(date) + 1)

\* lines 138-147: the reduce.  The object monthlyGroups is the sequence of
\* its entries in insertion order, which is the order Object.entries returns
\* for keys that are not array indices.
KeyIndex(groups, key) ==
  LET at == {k \in 1..Len(groups) : groups[k].key = key} IN
    IF at = {} THEN 0 ELSE CHOOSE k \in at : TRUE

AddToGroup(acc, row) ==
  LET monthKey == MonthKeyOf(row)
      at == KeyIndex(acc, monthKey)
      created == IF at = 0 THEN Append(acc, [key |-> monthKey, texts |-> <<>>]) ELSE acc
      k == IF at = 0 THEN Len(created) ELSE at
  IN [created EXCEPT ![k].texts = Append(@, row.raw_text)]

RECURSIVE MonthlyGroups(_, _)
MonthlyGroups(validData, n) ==
  IF n = 0 THEN <<>> ELSE AddToGroup(MonthlyGroups(validData, n - 1), validData[n])

\* Number(x.toFixed(digits)), scale = 10^digits: the nearest multiple of
\* 1/scale, a tie going away from zero
ToFixedNumber(x, scale) ==
  LET mag == IF x.num < 0 THEN 0 - x.num ELSE x.num
      n == (2 * mag * scale + x.den) \div (2 * x.den)
  IN Reduce(Frac(IF x.num < 0 THEN 0 - n ELSE n, scale))

\* lines 150-159: the bucket of one entry.  new Date(month + '-01') is
\* midnight UTC of the first of the month, read with the local getters.
BucketOf(entry) ==
  LET avgSentiment == calculateAverageSentiment(entry.texts)
      date == LocalDay(entry.key \o <<"-", "0", "1">>)
      year == YearString(GetFullYear(date))
      formattedMonth == PadStart2(GetMonth(date) + 1) \o <<"/">> \o SubSeq(year, 3, 4)
  IN [month |-> formattedMonth,
      averageSentiment |->
        ToFixedNumber(FracDiv(FracAdd(avgSentiment.score, Frac(1, 1)), 2), 1000),
      reviewCount |-> Len(entry.texts),
      change |-> [kind |-> "absent"]]

\* lines 162-165: the instant the comparator builds from a label MM/YY,
\* new Date(2000 + parseInt(year), parseInt(month) - 1), as a count of months
SortKeyLexicographic(label) ==
  TwoDigits(label, 1) * 100 + TwoDigits(label, 4)
SortKeyOf(label) ==
  (2000 + TwoDigits(label, 4)) * 12 + (TwoDigits(label, 1) - 1)

\* line 160: Array.prototype.sort with the comparator of lines 160-167 (the
\* sort is stable: equal elements keep their order)
RECURSIVE SortedByMonth(_, _)
SortedByMonth(buckets, n) ==
  IF n = 0 THEN <<>>
  ELSE LET done == SortedByMonth(buckets, n - 1)
           item == buckets[n]
           before == Cardinality({k \in 1..Len(done) :
                       SortKeyOf(done[k].month) <= SortKeyOf(item.month)})
       IN SubSeq(done, 1, before) \o <<item>> \o SubSeq(done, before + 1, Len(done))

\* lines 172-173: the change of a bucket against the one before it.  A
\* division by 0 gives Infinity (or NaN for 0 / 0), which toFixed and Number
\* carry through.
ChangeOf(item, previous) ==
  LET cur == item.averageSentiment
      prev == previous.averageSentiment
  IN IF prev.num = 0
     THEN (IF cur.num = 0 THEN [kind |-> "NaN"] ELSE [kind |-> "Infinity"])
     ELSE [kind |-> "number",
           value |-> ToFixedNumber(
                       FracMul(Frac(FracSub(cur, prev).num * prev.den,
                                    FracSub(cur, prev).den * prev.num),
                               Frac(100, 1)), 10)]

\* lines 170-176: the final map
WithChange(sorted) ==
  [index \in 1..Len(sorted) |->
     IF index > 1
     THEN [sorted[index] EXCEPT !.change = ChangeOf(sorted[index], sorted[index - 1])]
     ELSE sorted[index]]

calculateTimelineSentiment(rows) ==
  LET validData == ValidData(rows) IN
    IF Len(validData) = 0 THEN <<>>
    ELSE LET monthlyGroups == MonthlyGroups(validData, Len(validData))
             buckets == [k \in 1..Len(monthlyGroups) |-> BucketOf(monthlyGroups[k])]
         IN WithChange(SortedByMonth(buckets, Len(buckets)))

(***************************************************************************)
(* LLMSentimentAnalyzer (utils/llmSentimentAnalysis.ts).  The answer of    *)
(* the chat completion is modelled by what the code keeps of it: the       *)
(* promise rejects (an API error, the 15 s timeout, an empty content), or  *)
(* the content has no line of the form INDEX|SENTIMENT|LANGUAGE, or the    *)
(* object `analysis` built from its lines.                                 *)
(***************************************************************************)
maxErrors == 5
maxConcurrent == 3
maxRetries == 2
CacheKeyLength == 100
\* getOptimalBatchSize, lines 507-521: after clearCache avgResponseTime is 0
\* and successRate is 1, so the size is Math.min(40, 810) = 40.  The model
\* uses a small size so that a list of a few rows spans several batches.
BatchSize == 2
getOptimalBatchSize(metrics) == BatchSize

\* an empty slot of `new Array(texts.length)` or of a sparse array
Hole == [hole |-> TRUE]

\* the object returned where the code falls back, with its two confidences
FallbackResult(confidence, languageConfidence) ==
  [score |-> Frac(0, 1), magnitude |-> Frac(1, 10), label |-> "neutral",
   confidence |-> confidence, detectedLanguage |-> S_en,
   languageConfidence |-> languageConfidence]
\* lines 230-237, 338-345, 413-420 and 210-217
DefaultResult == FallbackResult(Frac(1, 10), Frac(1, 2))
\* lines 387-394
MissingResult == FallbackResult(Frac(1, 2), Frac(8, 10))

\* lines 25-27, with a breaker that never opens
shouldSkipLLMNever(count) == FALSE
\* lines 25-27
shouldSkipLLM(count) == count >= maxErrors

\* lines 47 and 62: text.substring(0, 100) + '_v2_lang'
CacheKey(text) ==
  SubSeq(text, 1, IF Len(text) < CacheKeyLength THEN Len(text) ELSE CacheKeyLength)
  \o <<"_", "v", "2", "_", "l", "a", "n", "g">>

\* the Map analysisCache as the set of its entries
CacheHas(cache, key) == \E e \in cache : e.key = key
CacheGet(cache, key) == (CHOOSE e \in cache : e.key = key).result
CacheSet(cache, key, result) ==
  {e \in cache : e.key # key} \cup {[key |-> key, result |-> result]}

\* lines 40-57: getCachedResults; indices are 0-based as in the code
getCachedResults(cache, texts) ==
  LET missing == {k \in 1..Len(texts) : ~CacheHas(cache, CacheKey(texts[k]))}
      position(n) == CHOOSE k \in missing : Cardinality({h \in missing : h < k}) = n - 1
  IN [cached |-> [k \in 1..Len(texts) |->
                    IF k \in missing THEN Hole ELSE CacheGet(cache, CacheKey(texts[k]))],
      uncached |-> [n \in 1..Cardinality(missing) |-> texts[position(n)]],
      indices |-> [n \in 1..Cardinality(missing) |-> position(n) - 1]]

\* lines 60-68: cacheResults
RECURSIVE cacheResults(_, _, _, _)
cacheResults(cache, texts, batchResults, n) ==
  IF n = 0 THEN cache
  ELSE LET before == cacheResults(cache, texts, batchResults, n - 1) IN
       IF n <= Len(batchResults) /\ batchResults[n] # Hole
       THEN CacheSet(before, CacheKey(texts[n]), batchResults[n])
       ELSE before

\* lines 369-396: the result of text i (0-based) from the object analysis,
\* a set of [index, s, l]
ResultOfAnalysis(analysis, i) ==
  IF \E a \in analysis : a.index = i
  THEN LET reviewAnalysis == CHOOSE a \in analysis : a.index = i
           sentimentScore == Clamp(reviewAnalysis.s)
       IN [score |-> sentimentScore, magnitude |-> MathAbs(sentimentScore),
           label |-> LabelOf(sentimentScore),
           confidence |-> Frac(8, 10),
           detectedLanguage |-> ToLowerCase(reviewAnalysis.l),
           languageConfidence |-> Frac(9, 10)]
  ELSE MissingResult

\* lines 226-238: analyzeBatchWithSingleCall up to the request; TRUE when
\* the request is not made
SkipsRequest(count) == shouldSkipLLM(count)

\* lines 294-422: analyzeBatchWithSingleCall from the settled request on.
\* Every branch returns: the function never throws.
AfterResponse(texts, response, count) ==
  CASE response.kind = "rejected" ->
         [threw |-> FALSE, results |-> [k \in 1..Len(texts) |-> DefaultResult],
          errorCount |-> count + 1]
    [] response.kind = "unparseable" ->
         [threw |-> FALSE, results |-> [k \in 1..Len(texts) |-> DefaultResult],
          errorCount |-> count]
    [] response.kind = "parsed" ->
         [threw |-> FALSE,
          results |-> [k \in 1..Len(texts) |-> ResultOfAnalysis(response.analysis, k - 1)],
          errorCount |-> 0]

\* lines 524-533: updatePerformanceMetrics.  The averages depend on the
\* measured times; the model keeps whether they still have their reset values.
updatePerformanceMetrics(metrics) == "measured"

\* lines 148-162 and 165-174: processSingleBatch up to the await
StartBatch(cache, count, batch, batchStartIndex) ==
  LET got == getCachedResults(cache, batch)
      calls == Len(got.uncached) > 0
      skipped == calls /\ SkipsRequest(count)
  IN [batchStartIndex |-> batchStartIndex, batch |-> batch, cached |-> got.cached,
      uncached |-> got.uncached, indices |-> got.indices,
      pc |-> IF calls THEN "awaiting" ELSE "done",
      pending |-> IF ~calls THEN "none" ELSE IF skipped THEN "skipped" ELSE "request",
      requests |-> IF calls /\ ~skipped THEN 1 ELSE 0,
      retryCount |-> 0,
      outcome |-> IF calls THEN "pending" ELSE "cached"]

\* lines 155-159: the cached results are written at once
FillCached(res, b) ==
  [k \in 1..Len(res) |->
     IF /\ k - b.batchStartIndex \in 1..Len(b.batch)
        /\ b.cached[k - b.batchStartIndex] # Hole
     THEN b.cached[k - b.batchStartIndex] ELSE res[k]]

\* lines 192-195: the new results are written at batchStartIndex + indices[index]
FillAtOwnIndex(res, b, batchResults) ==
  [k \in 1..Len(res) |->
     IF k - b.batchStartIndex \in 1..Len(batchResults) THEN batchResults[k - b.batchStartIndex]
     ELSE res[k]]
FillNew(res, b, batchResults) ==
  [k \in 1..Len(res) |->
     IF \E n \in 1..Len(batchResults) : b.batchStartIndex + b.indices[n] + 1 = k
     THEN batchResults[CHOOSE n \in 1..Len(batchResults) :
                         b.batchStartIndex + b.indices[n] + 1 = k]
     ELSE res[k]]

\* lines 204-220: the catch block of processSingleBatch
FillDefaults(res, b) ==
  [k \in 1..Len(res) |->
     IF k - b.batchStartIndex \in 1..Len(b.batch) /\ res[k] = Hole
     THEN DefaultResult ELSE res[k]]

\* lines 170-198: processSingleBatch after the awaited call returned r; st
\* is [results, cache, metrics], b the batch
AfterCall(st, b, r, outcome) ==
  IF r.threw
  THEN IF b.retryCount + 1 <= maxRetries
       THEN [results |-> st.results, cache |-> st.cache,
             metrics |-> updatePerformanceMetrics(st.metrics),
             batch |-> [b EXCEPT !.retryCount = @ + 1, !.pc = "backoff"]]
       ELSE [results |-> FillDefaults(st.results, b), cache |-> st.cache,
             metrics |-> updatePerformanceMetrics(st.metrics),
             batch |-> [b EXCEPT !.retryCount = @ + 1, !.pc = "done",
                                 !.outcome = "gave-up"]]
  ELSE [results |-> FillNew(st.results, b, r.results),
        cache |-> cacheResults(st.cache, b.uncached, r.results, Len(b.uncached)),
        metrics |-> updatePerformanceMetrics(st.metrics),
        batch |-> [b EXCEPT !.pc = "done", !.outcome = outcome]]

\* lines 97-122: the batches of the group that starts at text i (0-based)
GroupSize(n, i, batchSize) ==
  Cardinality({j \in 0..(maxConcurrent - 1) : i + j * batchSize < n})
LaunchGroup(texts, cache, count, i, batchSize) ==
  [j \in 1..GroupSize(Len(texts), i, batchSize) |->
     LET batchStart == i + (j - 1) * batchSize
         last == IF batchStart + batchSize < Len(texts) THEN batchStart + batchSize
                 ELSE Len(texts)
     IN StartBatch(cache, count, SubSeq(texts, batchStart + 1, last), batchStart)]

RECURSIVE FillCachedAll(_, _, _)
FillCachedAll(res, group, n) ==
  IF n = 0 THEN res ELSE FillCached(FillCachedAll(res, group, n - 1), group[n])

\* lines 465-471 and 480-495: the rows enhanceDataWithLLM resolves with.  A
\* hole in sentimentResults makes the map throw, and the catch block scores
\* every row with the lexicon.
EnhancedRows(rows, sentimentResults) ==
  IF \E k \in 1..Len(rows) : sentimentResults[k] = Hole
  THEN [k \in 1..Len(rows) |->
          [review_id |-> rows[k].review_id, raw_text |-> rows[k].raw_text,
           language |-> S_en,
           llm_sentiment_score |-> analyzeSentiment(rows[k].raw_text).score,
           llm_language |-> S_en, llm_confidence |-> Frac(6, 10)]]
  ELSE [k \in 1..Len(rows) |->
          [review_id |-> rows[k].review_id, raw_text |-> rows[k].raw_text,
           language |-> sentimentResults[k].detectedLanguage,
           llm_sentiment_score |-> sentimentResults[k].score,
           llm_language |-> sentimentResults[k].detectedLanguage,
           llm_confidence |-> sentimentResults[k].confidence]]

(***************************************************************************)
(* The store useCSVDataStore and CompactCSVUpload.handleFileUpload         *)
(* (components/Dashboard.tsx, lines 322-388).  preprocessingReport is <<>> *)
(* for null and <<report>> otherwise.                                      *)
(***************************************************************************)
InitialStore ==
  [rawData |-> <<>>, cleanedData |-> <<>>, enhancedData |-> <<>>,
   preprocessingReport |-> <<>>, isDataReady |-> FALSE,
   isAnalysisStarted |-> FALSE, isAnalyzing |-> FALSE, isEnhanced |-> FALSE]

clearData(st) == InitialStore
setRawData(st, rows) == [st EXCEPT !.rawData = rows]
setCleanedData(st, rows) == [st EXCEPT !.cleanedData = rows, !.isDataReady = Len(rows) > 0]
setPreprocessingReport(st, rep) == [st EXCEPT !.preprocessingReport = <<rep>>]
setEnhancedData(st, rows) == [st EXCEPT !.enhancedData = rows, !.isEnhanced = Len(rows) > 0]
startAnalysis(st) == [st EXCEPT !.isAnalysisStarted = TRUE, !.isAnalyzing = TRUE]
setAnalyzing(st, analyzing) == [st EXCEPT !.isAnalyzing = analyzing]

\* Object.keys(rawData[0]) checked by CSVParser.validateStructure, lines 344-347
StructureErrors(rows) == validateStructure(ObjectKeys(rows[1]), NoExpected)

(***************************************************************************)
(* Specification SpecCSV: CSVParser.parse applied to a text, either an     *)
(* arbitrary text or the serialisation of a two-column record whose first  *)
(* field is quoted.                                                        *)
(***************************************************************************)
CsvChars == {QUOTE, COMMA, LF, CR, SPACE, "a"}
FieldChars == {QUOTE, COMMA, LF, SPACE, "a"}

\* a field written as a double-quoted CSV field, quotes doubled
RECURSIVE EscapeQuotes(_)
EscapeQuotes(s) ==
  IF s = <<>> THEN <<>>
  ELSE (IF Head(s) = QUOTE THEN <<QUOTE, QUOTE>> ELSE <<Head(s)>>)
       \o EscapeQuotes(Tail(s))

QuoteField(s) == <<QUOTE>> \o EscapeQuotes(s) \o <<QUOTE>>

ColA == <<"a">>
ColB == <<"b">>

\* header "a,b", one record: the quoted field and the plain field x
SerializedRecord(f) == <<"a", COMMA, "b", LF>> \o QuoteField(f) \o <<COMMA, "x">>

valIdle == headers = <<>> /\ expectedHeaders = NoExpected /\ errors = <<>>
csvIdle == field = NoField /\ csvText = <<>> /\ data = <<>>
preIdle ==
  /\ rawData = <<>> /\ cleanedData = <<>> /\ report = NewReport(0)
  /\ run = 1 /\ firstReport = NewReport(0)
upIdle ==
  /\ fileHeader = <<>> /\ fileRows = 0 /\ store = InitialStore
  /\ validationStatus = "idle" /\ validationErrors = <<>>
  /\ isProcessing = FALSE /\ uploadProgress = 0
llmIdle ==
  /\ llmData = <<>> /\ analysisCache = {} /\ errorCount = 0
  /\ performanceMetrics = "reset" /\ results = <<>> /\ batches = <<>>
  /\ groupStart = 0 /\ enhanced = <<>>
appIdle == files = <<>> /\ runs = <<>> /\ analysisProgress = 0 /\ activeTab = "overview"
asyncIdle == llmIdle /\ appIdle
anaIdle ==
  /\ tokens = <<>> /\ inputText = <<>> /\ sentiment = <<>> /\ reviews = <<>>
  /\ anomalies = <<>> /\ timeline = <<>> /\ timeZone = "UTC"

InitCSV ==
  /\ valIdle /\ anaIdle /\ asyncIdle
  /\ preIdle /\ variant = "composite"
  /\ upIdle
  /\ data = <<>>
  /\ \/ pc = "csv-field" /\ field \in SeqsUpTo(FieldChars, MaxFieldLen) /\ csvText = <<>>
     \/ pc = "csv-text" /\ field = NoField /\ csvText \in SeqsUpTo(CsvChars, MaxTextLen)

SerializeField ==
  /\ pc = "csv-field"
  /\ csvText' = SerializedRecord(field)
  /\ pc' = "csv-text"
  /\ UNCHANGED <<field, data, valVars, variant, preVars, upVars, anaVars, asyncVars>>

ParseText ==
  /\ pc = "csv-text"
  /\ data' = parse(csvText)
  /\ pc' = "csv-parsed"
  /\ UNCHANGED <<field, csvText, valVars, variant, preVars, upVars, anaVars, asyncVars>>

NextCSV == SerializeField \/ ParseText

SpecCSV == InitCSV /\ [][NextCSV]_vars

(***************************************************************************)
(* Specification SpecValidate: CSVParser.validateStructure applied to a    *)
(* header list and an optional reference list.                             *)
(***************************************************************************)
HeaderNames == {<<>>, <<SPACE>>, <<"a">>, <<"A">>, <<"a", SPACE>>, <<"b">>}
ExpectedNames == {<<"a">>, <<"B">>, <<"c">>}

InitValidate ==
  /\ csvIdle /\ anaIdle /\ asyncIdle
  /\ preIdle /\ variant = "composite"
  /\ upIdle
  /\ pc = "val-input"
  /\ headers \in SeqsUpTo(HeaderNames, MaxHeaders)
  /\ expectedHeaders \in {NoExpected} \cup SeqsUpTo(ExpectedNames, MaxExpected)
  /\ errors = <<>>

ValidateStructure ==
  /\ pc = "val-input"
  /\ errors' = validateStructure(headers, expectedHeaders)
  /\ pc' = "val-done"
  /\ UNCHANGED <<headers, expectedHeaders, csvVars, variant, preVars, upVars, anaVars, asyncVars>>

NextValidate == ValidateStructure

SpecValidate == InitValidate /\ [][NextValidate]_vars

(***************************************************************************)
(* Specification SpecPre: DataPreprocessor.preprocessData applied to a     *)
(* list of row objects, and applied again to the rows it returned.         *)
(***************************************************************************)
D2020 == <<"2", "0", "2", "0", "-", "0", "1", "-", "0", "1">>
D1999 == <<"1", "9", "9", "9", "-", "0", "1", "-", "0", "1">>
T_ok == <<"o", "k">>
T_o_k == <<"o", " ", "k">>
T_euro == <<"U+20AC">>
T_x == <<"x">>

CompositeRow(listing, date, comments) ==
  << <<K_listing_id, listing>>, <<K_date, date>>, <<K_comments, comments>>,
     <<K_neighbourhood_cleansed, <<"N">>>> >>

ReviewIdRow(id, listing, date, text) ==
  << <<K_review_id, id>>, <<K_listing_id, listing>>, <<K_created_at, date>>,
     <<K_raw_text, text>> >>

CompositeRows ==
  {CompositeRow(<<"1">>, d, c) :
     d \in {D2020, D1999}, c \in {<<>>, <<SPACE>>, T_ok, T_euro}}
  \cup {CompositeRow(Undefined, D2020, T_ok), CompositeRow(Undefined, D1999, <<>>),
        CompositeRow(<<"1">>, T_x, T_ok), CompositeRow(<<"1">>, D2020, T_o_k)}

ReviewIdRows ==
  {ReviewIdRow(id, <<"7">>, d, t) :
     id \in {<<"1">>, <<SPACE, "1">>}, d \in {D2020, T_x}, t \in {<<>>, T_ok}}
  \cup {ReviewIdRow(Undefined, <<"7">>, D2020, T_ok),
        ReviewIdRow(<<"1">>, <<"7">>, D1999, <<SPACE>>),
        ReviewIdRow(<<"2">>, <<"7">>, D1999, T_ok),
        ReviewIdRow(<<"2">>, Undefined, D2020, T_ok)}

\* an array of fresh objects, one per row
FreshObjects(rows) == [k \in 1..Len(rows) |-> <<k, rows[k]>>]

InitPre ==
  /\ csvIdle /\ valIdle /\ upIdle /\ anaIdle /\ asyncIdle
  /\ pc = "pre-input"
  /\ variant \in {"composite", "review_id"}
  /\ rawData \in {FreshObjects(rows) :
                    rows \in SeqsUpTo(IF variant = "composite" THEN CompositeRows
                                      ELSE ReviewIdRows, MaxRows)}
  /\ cleanedData = <<>> /\ report = NewReport(0)
  /\ run = 1 /\ firstReport = NewReport(0)

Preprocess(which) ==
  /\ pc = "pre-input"
  /\ variant = which
  /\ LET r == preprocessData(which, rawData) IN
       IF r.threw
       THEN pc' = "pre-threw" /\ UNCHANGED <<cleanedData, report>>
       ELSE pc' = "pre-done" /\ cleanedData' = r.cleanedData /\ report' = r.report
  /\ UNCHANGED <<rawData, run, firstReport, variant, csvVars, valVars, upVars, anaVars, asyncVars>>

PreprocessData == Preprocess("composite")
PreprocessDataReviewId == Preprocess("review_id")

\* preprocessData is handed the rows it returned
Rerun ==
  /\ pc = "pre-done"
  /\ run = 1
  /\ rawData' = FreshObjects(cleanedData)
  /\ firstReport' = report
  /\ run' = 2
  /\ cleanedData' = <<>> /\ report' = NewReport(0)
  /\ pc' = "pre-input"
  /\ UNCHANGED <<variant, csvVars, valVars, upVars, anaVars, asyncVars>>

NextPre == PreprocessData \/ PreprocessDataReviewId \/ Rerun

SpecPre == InitPre /\ [][NextPre]_vars

(***************************************************************************)
(* Specification SpecUpload: one run of CompactCSVUpload.handleFileUpload  *)
(* on a file made of a header line and data lines.                         *)
(***************************************************************************)
UploadNames == {K_listing_id, K_date, K_comments, <<>>}

\* the value written in column k of every data line
ValueAt(k) == IF k = 1 THEN <<"1">> ELSE IF k = 2 THEN D2020 ELSE T_ok

RECURSIVE JoinFields(_, _)
JoinFields(fields, sep) ==
  IF fields = <<>> THEN <<>>
  ELSE IF Len(fields) = 1 THEN fields[1]
  ELSE fields[1] \o <<sep>> \o JoinFields(Tail(fields), sep)

\* the text of the file: the header line, then n data lines
FileText(header, n) ==
  JoinFields(<<JoinFields(header, COMMA)>>
             \o [r \in 1..n |-> JoinFields([k \in 1..Len(header) |-> ValueAt(k)], COMMA)],
             LF)

InitUpload ==
  /\ valIdle /\ preIdle /\ anaIdle /\ asyncIdle
  /\ pc = "up-idle"
  /\ variant \in {"composite", "review_id"}
  /\ fileHeader \in SeqsUpTo(UploadNames, MaxUploadCols) \ {<<>>}
  /\ fileRows \in 0..MaxUploadRows
  /\ field = NoField /\ data = <<>>
  /\ csvText = FileText(fileHeader, fileRows)
  /\ store = InitialStore
  /\ validationStatus = "idle" /\ validationErrors = <<>>
  /\ isProcessing = FALSE /\ uploadProgress = 0

\* handleFileUpload up to `await file.text()`, lines 323-335
UploadStart ==
  /\ pc = "up-idle"
  /\ isProcessing' = TRUE
  /\ uploadProgress' = 0
  /\ validationErrors' = <<>>
  /\ store' = clearData(store)
  /\ pc' = "up-reading"
  /\ UNCHANGED <<fileHeader, fileRows, validationStatus, variant, csvVars, valVars, preVars, anaVars, asyncVars>>

\* the catch block, lines 382-387
UploadFailed(st, message) ==
  /\ store' = st
  /\ validationStatus' = "invalid"
  /\ validationErrors' = <<[kind |-> message, at |-> 0]>>
  /\ isProcessing' = FALSE
  /\ uploadProgress' = 0

\* handleFileUpload after the text was read, lines 337-387
UploadFinish ==
  /\ pc = "up-reading"
  /\ LET rows == parse(csvText) IN
       IF Len(rows) = 0
       THEN UploadFailed(store, "no-data-row")
       ELSE IF Len(StructureErrors(rows)) > 0
       THEN /\ store' = store
            /\ validationStatus' = "invalid"
            /\ validationErrors' = StructureErrors(rows)
            /\ isProcessing' = FALSE
            /\ uploadProgress' = 0
       ELSE LET r == preprocessData(variant, FreshObjects(rows)) IN
            IF r.threw
            THEN UploadFailed(setRawData(store, rows), "exception")
            ELSE /\ store' = setPreprocessingReport(
                               setCleanedData(setRawData(store, rows), r.cleanedData),
                               r.report)
                 /\ uploadProgress' = 100
                 /\ isProcessing' = FALSE
                 /\ IF Len(r.cleanedData) = 0
                    THEN /\ validationStatus' = "invalid"
                         /\ validationErrors' = <<[kind |-> "no-valid-row", at |-> 0]>>
                    ELSE /\ validationStatus' = "valid"
                         /\ UNCHANGED validationErrors
  /\ pc' = "up-done"
  /\ UNCHANGED <<fileHeader, fileRows, variant, csvVars, valVars, preVars, anaVars, asyncVars>>

NextUpload == UploadStart \/ UploadFinish

SpecUpload == InitUpload /\ [][NextUpload]_vars

(***************************************************************************)
(* Specification SpecSentiment: analyzeSentiment applied to a text written *)
(* from up to MaxTokens words, either in lower case with single blanks or  *)
(* capitalised with punctuation, or to a blank text.                       *)
(***************************************************************************)
W_good == <<"g", "o", "o", "d">>
W_bad == <<"b", "a", "d">>
W_not == <<"n", "o", "t">>
W_very == <<"v", "e", "r", "y">>
W_the == <<"t", "h", "e">>
Vocabulary == {W_good, W_bad, W_not, W_very, W_the}

UpperChar(c) ==
  IF \E k \in 1..26 : LowerCase[k] = c
  THEN UpperCase[CHOOSE k \in 1..26 : LowerCase[k] = c]
  ELSE c
Capitalised(word) == [k \in 1..Len(word) |-> IF k = 1 THEN UpperChar(word[k]) ELSE word[k]]

\* the text of the words: "good bad", or " Good,Bad!"
Render(toks, style) ==
  IF style = "plain" THEN JoinFields(toks, SPACE)
  ELSE <<SPACE>> \o JoinFields([k \in 1..Len(toks) |-> Capitalised(toks[k])], COMMA)
       \o <<"!">>

InitSentiment ==
  /\ csvIdle /\ valIdle /\ preIdle /\ upIdle /\ asyncIdle /\ variant = "composite"
  /\ pc = "sen-input"
  /\ tokens \in SeqsUpTo(Vocabulary, MaxTokens)
  /\ inputText \in {Render(tokens, "plain"), Render(tokens, "punct")}
                   \cup (IF tokens = <<>> THEN {<<SPACE>>, Undefined} ELSE {})
  /\ sentiment = <<>> /\ reviews = <<>> /\ anomalies = <<>> /\ timeline = <<>>
  /\ timeZone = "UTC"

AnalyzeSentiment ==
  /\ pc = "sen-input"
  /\ sentiment' = [score |-> AnalyzeLocals(inputText).score,
                   wordCount |-> AnalyzeLocals(inputText).wordCount,
                   result |-> analyzeSentiment(inputText)]
  /\ pc' = "sen-done"
  /\ UNCHANGED <<tokens, inputText, reviews, anomalies, timeline, timeZone,
                 csvVars, valVars, variant, preVars, upVars, asyncVars>>

NextSentiment == AnalyzeSentiment

SpecSentiment == InitSentiment /\ [][NextSentiment]_vars

(***************************************************************************)
(* Specification SpecAnomaly: detectAnomalies applied to a list of up to   *)
(* MaxReviews rows, each of one of six kinds, with review_id the position  *)
(* of the row.                                                             *)
(***************************************************************************)
N_A == <<"A">>
N_B == <<"B">>
T_long == Render(<<W_good, W_the, W_the, W_the>>, "plain")
T_short == W_bad

ReviewRow(id, neighbourhood, date, language, rawText, score, anomalyScore) ==
  [review_id |-> id, raw_text |-> rawText, neighbourhood |-> neighbourhood,
   created_at |-> date, language |-> language,
   sentiment_score |-> score, anomaly_score |-> anomalyScore]

ReviewKinds == {"a-low", "a-high", "b-flagged", "b-short", "b-language", "old"}
\* the kinds of row without a supplied anomaly score, for longer lists: a
\* z-score above 2 needs at least six rows
PlainKinds == {"a-low", "a-high", "b-short"}
MaxPlainReviews == 6

ReviewOfKind(kind, id) ==
  CASE kind = "a-low" ->
         ReviewRow(id, N_A, D2020, S_en, T_long, Frac(1, 10), NoNumber)
    [] kind = "a-high" ->
         ReviewRow(id, N_A, D2020, S_en, T_long, Frac(9, 10), NoNumber)
    [] kind = "b-flagged" ->
         ReviewRow(id, N_B, D2020, S_de, T_short, Frac(1, 10), Frac(5, 2))
    [] kind = "b-short" ->
         ReviewRow(id, N_B, D2020, S_en, T_short, NoNumber, NoNumber)
    [] kind = "b-language" ->
         ReviewRow(id, N_B, D2020, S_de, T_long, Frac(9, 10), Frac(17, 10))
    [] kind = "old" ->
         ReviewRow(id, N_A, D1999, S_en, T_long, Frac(9, 10), NoNumber)

InitAnomaly ==
  /\ csvIdle /\ valIdle /\ preIdle /\ upIdle /\ asyncIdle /\ variant = "composite"
  /\ pc = "ano-input"
  /\ tokens = <<>> /\ inputText = <<>> /\ sentiment = <<>>
  /\ reviews \in {[k \in 1..Len(kinds) |-> ReviewOfKind(kinds[k], k)] :
                    kinds \in SeqsUpTo(ReviewKinds, MaxReviews)
                              \cup SeqsUpTo(PlainKinds, MaxPlainReviews)}
  /\ anomalies = <<>> /\ timeline = <<>> /\ timeZone = "UTC"

DetectAnomalies ==
  /\ pc = "ano-input"
  /\ anomalies' = detectAnomalies(reviews)
  /\ pc' = "ano-done"
  /\ UNCHANGED <<tokens, inputText, sentiment, reviews, timeline, timeZone,
                 csvVars, valVars, variant, preVars, upVars, asyncVars>>

NextAnomaly == DetectAnomalies

SpecAnomaly == InitAnomaly /\ [][NextAnomaly]_vars

(***************************************************************************)
(* calculateTimelineSentiment on lists of reviews                          *)
(***************************************************************************)
MaxMonthRows == 3

D2022_11 == <<"2", "0", "2", "2", "-", "1", "1", "-", "0", "3">>
D2023_01 == <<"2", "0", "2", "3", "-", "0", "1", "-", "1", "5">>
D2023_01_first == <<"2", "0", "2", "3", "-", "0", "1", "-", "0", "1">>
TimelineDates == {D2022_11, D2023_01, D2023_01_first, D1999}
TimelineTexts == {T_long, T_short}

InitTimeline ==
  /\ csvIdle /\ valIdle /\ preIdle /\ upIdle /\ asyncIdle /\ variant = "composite"
  /\ pc = "tl-input"
  /\ tokens = <<>> /\ inputText = <<>> /\ sentiment = <<>>
  /\ reviews \in {[k \in 1..Len(rows) |->
                     ReviewRow(k, N_A, rows[k][1], S_en, rows[k][2], NoNumber, NoNumber)] :
                    rows \in SeqsUpTo(TimelineDates \X TimelineTexts, MaxMonthRows)}
  /\ anomalies = <<>> /\ timeline = <<>>
  /\ timeZone \in {"UTC", "west"}

CalculateTimeline ==
  /\ pc = "tl-input"
  /\ timeline' = calculateTimelineSentiment(reviews)
  /\ pc' = "tl-done"
  /\ UNCHANGED <<tokens, inputText, sentiment, reviews, anomalies, timeZone,
                 csvVars, valVars, variant, preVars, upVars, asyncVars>>

NextTimeline == CalculateTimeline

SpecTimeline == InitTimeline /\ [][NextTimeline]_vars

(***************************************************************************)
(* The specification of one run of enhanceDataWithLLM.  The batches of a   *)
(* group are started in one synchronous segment; each awaited request      *)
(* settles in a step of its own, in any order.                             *)
(***************************************************************************)
MaxLLMRows == 13
MaxRepeatRows == 8
LLMTexts == <<W_good, W_bad, W_not, W_very, W_the, T_ok, T_long>>
TextNo(k) == IF k <= Len(LLMTexts) THEN LLMTexts[k] ELSE [j \in 1..k |-> "z"]
LLMRow(id, rowText) == [review_id |-> id, raw_text |-> rowText]
LLMInputs ==
  {[k \in 1..n |-> LLMRow(k, TextNo(k))] : n \in 0..MaxLLMRows}
  \cup {[k \in 1..n |-> LLMRow(k, W_good)] : n \in 1..MaxRepeatRows}
  \cup UNION {{[k \in 1..n |-> LLMRow(k, IF k = p THEN W_bad ELSE W_good)] : p \in 1..n} :
               n \in 1..MaxRepeatRows}

\* what the service says of a text: a score and a language of its own
OracleScore(t) ==
  Frac(CHOOSE k \in 1..(MaxLLMRows + 1) : TextNo(k) = t, 100)
OracleLine(texts, i) ==
  [index |-> i, s |-> OracleScore(texts[i + 1]), l |-> S_de]
\* the settled requests of a call for texts: rejected, no valid line, a line
\* for every text, a line for every text but the first, or only a line whose
\* index is no text's
Responses(texts) ==
  {[kind |-> "rejected", analysis |-> {}], [kind |-> "unparseable", analysis |-> {}]}
  \cup {[kind |-> "parsed", analysis |-> {OracleLine(texts, i) : i \in S}] :
          S \in {0..(Len(texts) - 1), 1..(Len(texts) - 1)} \ {{}}}
  \cup {[kind |-> "parsed",
         analysis |-> {[index |-> Len(texts), s |-> Frac(0, 1), l |-> S_de]}]}

StaleCache == {[key |-> CacheKey(W_good), result |-> MissingResult]}

TextsOf(rows) == [k \in 1..Len(rows) |-> rows[k].raw_text]

InitLLM ==
  /\ pc = "llm-input"
  /\ csvIdle /\ valIdle /\ preIdle /\ upIdle /\ anaIdle /\ appIdle
  /\ variant = "composite"
  /\ llmData \in LLMInputs
  /\ analysisCache \in {{}, StaleCache}
  /\ errorCount \in {0, maxErrors}
  /\ performanceMetrics = "reset"
  /\ results = <<>>
  /\ batches = <<>>
  /\ groupStart = 0
  /\ enhanced = <<>>

\* lines 447-463 with 71-122 and 500-504: clearCache, the array of holes and
\* the first group
EnhanceStart ==
  /\ pc = "llm-input"
  /\ LET texts == TextsOf(llmData)
         group == LaunchGroup(texts, {}, 0, 0, getOptimalBatchSize("reset"))
     IN /\ analysisCache' = {}
        /\ errorCount' = 0
        /\ performanceMetrics' = "reset"
        /\ batches' = group
        /\ results' = FillCachedAll([k \in 1..Len(texts) |-> Hole], group, Len(group))
        /\ groupStart' = 0
  /\ pc' = "llm-running"
  /\ UNCHANGED <<llmData, enhanced>>
  /\ UNCHANGED <<csvVars, valVars, variant, preVars, upVars, anaVars, appVars>>

SettleBatch(j, r, newCount, outcome) ==
  LET after == AfterCall([results |-> results, cache |-> analysisCache,
                          metrics |-> performanceMetrics], batches[j], r, outcome)
  IN /\ results' = after.results
     /\ analysisCache' = after.cache
     /\ performanceMetrics' = after.metrics
     /\ batches' = [batches EXCEPT ![j] = after.batch]
     /\ errorCount' = newCount
     /\ UNCHANGED <<pc, llmData, groupStart, enhanced>>
     /\ UNCHANGED <<csvVars, valVars, variant, preVars, upVars, anaVars, appVars>>

\* lines 294-422 and 175-198: the request of batch j settles
RequestSettles ==
  /\ pc = "llm-running"
  /\ \E j \in 1..Len(batches) :
       /\ batches[j].pc = "awaiting" /\ batches[j].pending = "request"
       /\ \E response \in Responses(batches[j].uncached) :
            LET r == AfterResponse(batches[j].uncached, response, errorCount)
            IN SettleBatch(j, r, r.errorCount, response.kind)

\* lines 228-238 and 175-198: batch j was answered without a request
SkippedBatchContinues ==
  /\ pc = "llm-running"
  /\ \E j \in 1..Len(batches) :
       /\ batches[j].pc = "awaiting" /\ batches[j].pending = "skipped"
       /\ SettleBatch(j, [threw |-> FALSE,
                          results |-> [k \in 1..Len(batches[j].uncached) |-> DefaultResult],
                          errorCount |-> errorCount],
                      errorCount, "skipped")

GroupSettled == \A j \in 1..Len(batches) : batches[j].pc = "done"
MoreGroups ==
  groupStart + getOptimalBatchSize("reset") * maxConcurrent < Len(llmData)

\* lines 125-134 and 99-122: all of the group settled, the delay ran out and
\* the next group starts
NextGroup ==
  /\ pc = "llm-running"
  /\ GroupSettled /\ MoreGroups
  /\ LET i == groupStart + getOptimalBatchSize("reset") * maxConcurrent
         group == LaunchGroup(TextsOf(llmData), analysisCache, errorCount, i,
                              getOptimalBatchSize("reset"))
     IN /\ groupStart' = i
        /\ batches' = group
        /\ results' = FillCachedAll(results, group, Len(group))
  /\ UNCHANGED <<pc, llmData, analysisCache, errorCount, performanceMetrics, enhanced>>
  /\ UNCHANGED <<csvVars, valVars, variant, preVars, upVars, anaVars, appVars>>

\* lines 136-137 and 463-495: analyzeBatchSentiment resolves and the rows
\* are built
EnhanceFinish ==
  /\ pc = "llm-running"
  /\ GroupSettled /\ ~MoreGroups
  /\ enhanced' = EnhancedRows(llmData, results)
  /\ pc' = "llm-done"
  /\ UNCHANGED <<llmData, analysisCache, errorCount, performanceMetrics, results,
                 batches, groupStart>>
  /\ UNCHANGED <<csvVars, valVars, variant, preVars, upVars, anaVars, appVars>>

NextLLM ==
  EnhanceStart \/ RequestSettles \/ SkippedBatchContinues \/ NextGroup \/ EnhanceFinish

SpecLLM == InitLLM /\ [][NextLLM]_vars

(***************************************************************************)
(* Specification SpecAnalysis: the page (pages/Index.tsx) with the upload  *)
(* of the sidebar, the Clear Data button of the data preview and the runs  *)
(* of Index.startAnalysis.  A run is a record: where it stands, the        *)
(* cleanedData its closure holds, and, for stating claims, whether         *)
(* clearData was called since it started.                                  *)
(***************************************************************************)
MaxUploads == 2
MaxRuns == 2
initialSteps == <<15, 25, 35, 45, 55, 70, 80>>
finalSteps == <<95, 98, 100>>

UploadHeader == <<K_listing_id, K_date, K_comments>>
\* a file of n data lines for the listing
ListingFile(listing, n) ==
  JoinFields(<<JoinFields(UploadHeader, COMMA)>>
             \o [r \in 1..n |-> JoinFields(<<listing, D2020, T_ok>>, COMMA)],
             LF)
FileKinds ==
  {[listing |-> <<"1">>, rows |-> 1], [listing |-> <<"2">>, rows |-> 1],
   [listing |-> <<"1">>, rows |-> 0]}

\* what enhanceDataWithLLM resolves with for the rows: every request
\* rejected, or every text answered
AnalysisResults ==
  {DefaultResult,
   ResultOfAnalysis({[index |-> 0, s |-> Frac(1, 2), l |-> S_de]}, 0)}

\* the fields of a cleaned row that the enhanced rows of the model keep
RowsForLLM(rows) ==
  [k \in 1..Len(rows) |->
     LLMRow(Get(rows[k], K_review_id), Get(rows[k], K_raw_text))]

Active(r) == r.pc # "ended"
\* clearData of the store, seen by the runs under way
NoteCleared(rs) ==
  [k \in 1..Len(rs) |-> IF Active(rs[k]) THEN [rs[k] EXCEPT !.cleared = TRUE] ELSE rs[k]]

InitAnalysis ==
  /\ pc = "app-ready"
  /\ csvIdle /\ valIdle /\ preIdle /\ upIdle /\ anaIdle /\ llmIdle
  /\ variant = "composite"
  /\ files \in SeqsUpTo(FileKinds, MaxUploads) \ {<<>>}
  /\ runs = <<>>
  /\ analysisProgress = 0
  /\ activeTab = "overview"

\* handleFileUpload on the next file, up to `await file.text()`,
\* Dashboard.tsx lines 322-335
UploadNextFile ==
  /\ pc \in {"app-ready", "up-done"}
  /\ ~isProcessing
  /\ files # <<>>
  /\ fileHeader' = UploadHeader
  /\ fileRows' = Head(files).rows
  /\ csvText' = ListingFile(Head(files).listing, Head(files).rows)
  /\ files' = Tail(files)
  /\ isProcessing' = TRUE
  /\ uploadProgress' = 0
  /\ validationErrors' = <<>>
  /\ store' = clearData(store)
  /\ runs' = NoteCleared(runs)
  /\ pc' = "up-reading"
  /\ UNCHANGED <<field, data, validationStatus, variant, valVars, preVars, anaVars,
                 llmVars, analysisProgress, activeTab>>

\* the Clear Data button of DataPreview, DataSidebar.tsx lines 148-222
ClearData ==
  /\ store.isDataReady /\ Len(store.rawData) > 0
  /\ store' = clearData(store)
  /\ runs' = NoteCleared(runs)
  /\ UNCHANGED <<pc, fileHeader, fileRows, validationStatus, validationErrors,
                 isProcessing, uploadProgress, files, analysisProgress, activeTab>>
  /\ UNCHANGED <<csvVars, valVars, variant, preVars, anaVars, llmVars>>

\* Index.startAnalysis up to the first await, lines 102-133; the button is
\* disabled while isAnalyzing or not isDataReady (line 223)
StartAnalysis ==
  /\ Len(runs) < MaxRuns
  /\ ~store.isAnalyzing
  /\ store.isDataReady
  /\ store' = startAnalysis(store)
  /\ analysisProgress' = 0
  /\ runs' = Append(runs, [pc |-> "initial", step |-> 0, cleanedData |-> store.cleanedData,
                           cleared |-> FALSE])
  /\ UNCHANGED <<pc, fileHeader, fileRows, validationStatus, validationErrors,
                 isProcessing, uploadProgress, files, activeTab>>
  /\ UNCHANGED <<csvVars, valVars, variant, preVars, anaVars, llmVars>>

\* a timer of the initial steps runs out, lines 133-146; after the last one
\* the progress is 85 and enhanceDataWithLLM is called
InitialStep ==
  /\ \E r \in 1..Len(runs) :
       /\ runs[r].pc = "initial"
       /\ IF runs[r].step + 1 < Len(initialSteps)
          THEN /\ analysisProgress' = initialSteps[runs[r].step + 1]
               /\ runs' = [runs EXCEPT ![r].step = @ + 1]
          ELSE /\ analysisProgress' = 85
               /\ runs' = [runs EXCEPT ![r].pc = "enhancing", ![r].step = 0]
  /\ UNCHANGED <<pc, upVars, files, activeTab>>
  /\ UNCHANGED <<csvVars, valVars, variant, preVars, anaVars, llmVars>>

\* enhanceDataWithLLM resolves, lines 146-154
EnhanceResolves ==
  /\ \E r \in 1..Len(runs) :
       /\ runs[r].pc = "enhancing"
       /\ \E res \in AnalysisResults :
            store' = setEnhancedData(store,
                       EnhancedRows(RowsForLLM(runs[r].cleanedData),
                                    [k \in 1..Len(runs[r].cleanedData) |-> res]))
       /\ analysisProgress' = 90
       /\ runs' = [runs EXCEPT ![r].pc = "final"]
  /\ UNCHANGED <<pc, fileHeader, fileRows, validationStatus, validationErrors,
                 isProcessing, uploadProgress, files, activeTab>>
  /\ UNCHANGED <<csvVars, valVars, variant, preVars, anaVars, llmVars>>

\* lines 168-169 and 180-182: the end of a run
EndRun(r) ==
  /\ store' = setAnalyzing(store, FALSE)
  /\ activeTab' = "dashboard"
  /\ runs' = [runs EXCEPT ![r].pc = "ended"]

\* enhanceDataWithLLM rejects and the catch block runs, lines 171-183
EnhanceThrows ==
  /\ \E r \in 1..Len(runs) :
       /\ runs[r].pc = "enhancing"
       /\ analysisProgress' = 100
       /\ EndRun(r)
  /\ UNCHANGED <<pc, fileHeader, fileRows, validationStatus, validationErrors,
                 isProcessing, uploadProgress, files>>
  /\ UNCHANGED <<csvVars, valVars, variant, preVars, anaVars, llmVars>>

\* a timer of the final steps runs out, lines 156-169
FinalStep ==
  /\ \E r \in 1..Len(runs) :
       /\ runs[r].pc = "final"
       /\ analysisProgress' = finalSteps[runs[r].step + 1]
       /\ IF runs[r].step + 1 < Len(finalSteps)
          THEN /\ runs' = [runs EXCEPT ![r].step = @ + 1]
               /\ UNCHANGED <<store, activeTab>>
          ELSE EndRun(r)
  /\ UNCHANGED <<pc, fileHeader, fileRows, validationStatus, validationErrors,
                 isProcessing, uploadProgress, files>>
  /\ UNCHANGED <<csvVars, valVars, variant, preVars, anaVars, llmVars>>

NextAnalysis ==
  \/ UploadNextFile
  \/ UploadFinish
  \/ ClearData
  \/ StartAnalysis
  \/ InitialStep
  \/ EnhanceResolves
  \/ EnhanceThrows
  \/ FinalStep

SpecAnalysis == InitAnalysis /\ [][NextAnalysis]_vars

\* the timers run out and the awaited enhancement settles
SpecAnalysisFair ==
  /\ SpecAnalysis
  /\ WF_vars(InitialStep) /\ WF_vars(FinalStep)
  /\ WF_vars(EnhanceResolves \/ EnhanceThrows)

\* under SpecAnalysisFair every run that started reaches its end, and the
\* step that ends it leaves isAnalyzing false
RunsEnd ==
  \A r \in 1..MaxRuns : (Len(runs) >= r) ~> (Len(runs) >= r /\ ~Active(runs[r]))
EndClearsAnalyzing ==
  [][\A r \in 1..Len(runs) :
       (Active(runs[r]) /\ ~Active(runs'[r])) => ~store'.isAnalyzing]_vars

(***************************************************************************)
(* Claims about CSVParser                                                  *)
(***************************************************************************)

\* C1: round trip.  A field written as a double-quoted CSV field with its
\* quotes doubled and parsed again by CSVParser.parse comes back as exactly
\* the original content (the record has one row, whose first column is the
\* field and whose second column is the plain neighbour x).
C1_RoundTrip ==
  (pc = "csv-parsed" /\ field # NoField) =>
    /\ Len(data) = 1
    /\ Get(data[1], ColA) = field
    /\ Get(data[1], ColB) = <<"x">>

\* the logical lines of a text, counted without the scanner: a line break is
\* a CR or LF preceded by an even number of quote characters
QuotesBefore(text, i) == Cardinality({k \in 1..(i - 1) : text[k] = QUOTE})
BreakAt(text, i) ==
  /\ i \in 1..Len(text)
  /\ text[i] \in {LF, CR}
  /\ QuotesBefore(text, i) % 2 = 0
LineStarts(text) == {s \in 1..Len(text) : s = 1 \/ BreakAt(text, s - 1)}
LineEnd(text, s) ==
  IF \E e \in s..Len(text) : BreakAt(text, e)
  THEN (CHOOSE e \in s..Len(text) :
          BreakAt(text, e) /\ \A f \in s..(e - 1) : ~BreakAt(text, f)) - 1
  ELSE Len(text)
NonBlankLogicalLines(text) ==
  Cardinality({s \in LineStarts(text) : Trim(SubSeq(text, s, LineEnd(text, s))) # <<>>})
QuotedBreak(text) ==
  \E i \in 1..Len(text) : text[i] \in {LF, CR} /\ QuotesBefore(text, i) % 2 = 1

\* C2: parse returns one record per non-blank logical line after the header,
\* logical lines being split only at line breaks outside quotes.
C2_RecordPerLogicalLine ==
  pc = "csv-parsed" =>
    Len(data) = (IF NonBlankLogicalLines(csvText) = 0 THEN 0
                 ELSE NonBlankLogicalLines(csvText) - 1)

\* C2 witness: a parsed text with a line break inside quotes and a record
C2_Witness ==
  /\ pc = "csv-parsed"
  /\ QuotedBreak(csvText)
  /\ Len(data) >= 1

\* what validateStructure is to accept
HeadersWellFormed(hdrs, expected) ==
  /\ Len(hdrs) > 0
  /\ \A k \in 1..Len(hdrs) : Trim(hdrs[k]) # <<>>
  /\ \A j, k \in 1..Len(hdrs) :
       j # k => Trim(ToLowerCase(hdrs[j])) # Trim(ToLowerCase(hdrs[k]))
  /\ (expected # NoExpected /\ Len(expected) > 0) =>
       \A e \in 1..Len(expected) : \E k \in 1..Len(hdrs) :
         Trim(ToLowerCase(hdrs[k])) = Trim(ToLowerCase(expected[e]))

\* C3: validateStructure returns no error iff the headers are non-empty, none
\* is blank, none repeats case/whitespace-insensitively and every expected
\* header (when given) occurs; with zero headers it returns exactly one error.
C3_ValidateStructure ==
  pc = "val-done" =>
    /\ (errors = <<>>) <=> HeadersWellFormed(headers, expectedHeaders)
    /\ Len(headers) = 0 => Len(errors) = 1

\* C3 witness: a header list with a case/whitespace duplicate was rejected,
\* and a well-formed one with a reference list was accepted
C3_Witness ==
  /\ pc = "val-done"
  /\ Len(headers) = 3
  /\ headers[1] = <<"a">> /\ headers[2] = <<"b">> /\ headers[3] = <<"A">>
  /\ expectedHeaders = <<<<"a">>, <<"B">>>>
  /\ Len(errors) = 1
  /\ errors[1].kind = "duplicate-header"

(***************************************************************************)
(* Claims about DataPreprocessor.preprocessData                            *)
(***************************************************************************)

\* the input positions the report names, and those it does not name
NamedRows == {report.errors[k].row : k \in 1..Len(report.errors)}
KeptRows == {i \in 1..Len(rawData) : i \notin NamedRows}
NthKept(j) == CHOOSE i \in KeptRows : Cardinality({h \in KeptRows : h < i}) = j - 1
ReasonAt(i) ==
  IF i \in NamedRows
  THEN report.errors[CHOOSE k \in 1..Len(report.errors) : report.errors[k].row = i].reason
  ELSE "kept"
ReasonCount(reason) ==
  Cardinality({k \in 1..Len(report.errors) : report.errors[k].reason = reason})

\* the fields the row must carry, its identifier and its date, per variant
InputLacksField(row) ==
  IF variant = "composite"
  THEN Get(row, K_listing_id) \in {Undefined, <<>>} \/ Get(row, K_comments) \in {Undefined, <<>>}
  ELSE Get(row, K_review_id) \in {Undefined, <<>>} \/ Get(row, K_raw_text) \in {Undefined, <<>>}
InputId(row) ==
  IF variant = "composite" THEN ReviewIdOf(row) ELSE Get(row, K_review_id)
\* the review_id under which a kept row appears in cleanedData
OutputId(row) ==
  IF variant = "composite" THEN ReviewIdOf(row) ELSE Trim(Get(row, K_review_id))
InputDate(row) ==
  IF variant = "composite" THEN Get(row, K_date) ELSE Get(row, K_created_at)
\* the review ids accepted from the rows before input position i
AcceptedIdsBefore(i) ==
  {Get(cleanedData[j], K_review_id) :
     j \in 1..Cardinality({h \in KeptRows : h < i})}

\* C5: the report's accounting.  originalRows = cleanedRows + removedRows,
\* removedRows = missingDataRemoved + duplicatesRemoved + invalidDatesRemoved
\* = length of errors, and the k-th error names the input position of the
\* k-th dropped row: the positions are increasing and the rows not named are,
\* in order, the rows of cleanedData.
C5_ReportAccounting ==
  pc = "pre-done" =>
    /\ report.originalRows = Len(rawData)
    /\ report.originalRows = report.cleanedRows + report.removedRows
    /\ report.cleanedRows = Len(cleanedData)
    /\ report.removedRows = report.missingDataRemoved + report.duplicatesRemoved
                            + report.invalidDatesRemoved
    /\ report.removedRows = Len(report.errors)
    /\ \A k \in 1..Len(report.errors) : report.errors[k].row \in 1..Len(rawData)
    /\ \A j, k \in 1..Len(report.errors) :
         j < k => report.errors[j].row < report.errors[k].row
    /\ Cardinality(KeptRows) = Len(cleanedData)
    /\ \A j \in 1..Len(cleanedData) :
         Get(cleanedData[j], K_review_id) = OutputId(RowOf(rawData, NthKept(j)))

\* C5 witness: of three rows the second and third were dropped, one as a
\* duplicate and one for its date
C5_Witness ==
  /\ pc = "pre-done" /\ run = 1
  /\ Len(rawData) = 3
  /\ Len(report.errors) = 2
  /\ report.errors[1] = [row |-> 2, reason |-> "duplicate"]
  /\ report.errors[2] = [row |-> 3, reason |-> "invalid-date"]
  /\ report.cleanedRows = 1

\* C6: the checks run in the order missing data, duplicate, invalid date and
\* stop at the first failure.  A row lacking a required field is reported as
\* missing data, and a complete row whose identifier was already accepted as
\* a duplicate, whatever its date; each counter counts the rows reported
\* with its reason, so no row is counted twice.
C6_CheckOrder ==
  pc = "pre-done" =>
    /\ \A i \in 1..Len(rawData) :
         LET row == RowOf(rawData, i) IN
           /\ InputLacksField(row) => ReasonAt(i) = "missing"
           /\ (~InputLacksField(row) /\ InputId(row) \in AcceptedIdsBefore(i))
                => ReasonAt(i) = "duplicate"
    /\ report.missingDataRemoved = ReasonCount("missing")
    /\ report.duplicatesRemoved = ReasonCount("duplicate")
    /\ report.invalidDatesRemoved = ReasonCount("invalid-date")
    /\ report.removedRows = Cardinality(NamedRows)

\* C6 witness: a row that lacks a field, repeats an accepted identifier and
\* has an unparseable date, and a complete row that repeats an accepted
\* identifier and has an unparseable date
C6_Witness ==
  /\ pc = "pre-done" /\ run = 1
  /\ \E i \in 1..Len(rawData) :
       /\ InputLacksField(RowOf(rawData, i))
       /\ InputId(RowOf(rawData, i)) \in AcceptedIdsBefore(i)
       /\ ParseDate(InputDate(RowOf(rawData, i))) = NaN
  /\ \E i \in 1..Len(rawData) :
       /\ ~InputLacksField(RowOf(rawData, i))
       /\ InputId(RowOf(rawData, i)) \in AcceptedIdsBefore(i)
       /\ ParseDate(InputDate(RowOf(rawData, i))) = NaN

\* C7: no two rows of the returned cleanedData have the same review_id.
C7_UniqueReviewIds ==
  pc = "pre-done" =>
    \A j, k \in 1..Len(cleanedData) :
      j # k => Get(cleanedData[j], K_review_id) # Get(cleanedData[k], K_review_id)

\* C8: every row of the returned cleanedData has a non-empty raw_text.
C8_NonEmptyRawText ==
  pc = "pre-done" =>
    \A j \in 1..Len(cleanedData) : Get(cleanedData[j], K_raw_text) # <<>>

\* C9: preprocessData run on the cleanedData it returned drops no row: the
\* second run removes 0 rows and keeps as many as the first run kept.
C9_Idempotent ==
  (pc = "pre-done" /\ run = 2) =>
    /\ report.removedRows = 0
    /\ report.cleanedRows = firstReport.cleanedRows

\* the rows of the C10 scenario: every field present, the identifier as
\* written (no surrounding blanks), the date a real calendar date
InRange(row) ==
  ParseDate(InputDate(row)) >= MinDate /\ ParseDate(InputDate(row)) <= CurrentDate
Before2008(row) ==
  ParseDate(InputDate(row)) # NaN /\ ParseDate(InputDate(row)) < MinDate
FirstValid(i) ==
  /\ InRange(RowOf(rawData, i))
  /\ \A j \in 1..(i - 1) :
       InRange(RowOf(rawData, j)) => InputId(RowOf(rawData, j)) # InputId(RowOf(rawData, i))
Repeats(i) ==
  \E j \in 1..(i - 1) :
    FirstValid(j) /\ InputId(RowOf(rawData, j)) = InputId(RowOf(rawData, i))
Old(i) == ~Repeats(i) /\ Before2008(RowOf(rawData, i))
Scenario ==
  \A i \in 1..Len(rawData) :
    /\ ~InputLacksField(RowOf(rawData, i))
    /\ Get(RowOf(rawData, i), K_listing_id) # Undefined
    /\ InputId(RowOf(rawData, i)) = Trim(InputId(RowOf(rawData, i)))
    /\ FirstValid(i) \/ Repeats(i) \/ Old(i)
CountRows(P(_)) == Cardinality({i \in 1..Len(rawData) : P(i)})

\* C10: for n valid rows with distinct identifiers, d repeats of accepted
\* identifiers and k complete rows dated before 2008, the report has
\* originalRows = n+d+k, cleanedRows = n, removedRows = d+k,
\* duplicatesRemoved = d, invalidDatesRemoved = k, missingDataRemoved = 0.
C10_ScenarioCounts ==
  (pc = "pre-done" /\ run = 1 /\ Scenario) =>
    /\ report.originalRows = CountRows(FirstValid) + CountRows(Repeats) + CountRows(Old)
    /\ report.cleanedRows = CountRows(FirstValid)
    /\ report.removedRows = CountRows(Repeats) + CountRows(Old)
    /\ report.duplicatesRemoved = CountRows(Repeats)
    /\ report.invalidDatesRemoved = CountRows(Old)
    /\ report.missingDataRemoved = 0

(***************************************************************************)
(* Claims about the upload flow                                            *)
(***************************************************************************)
HeaderHasEmptyName == \E k \in 1..Len(fileHeader) : fileHeader[k] = <<>>
HeaderHasDuplicate ==
  \E j, k \in 1..Len(fileHeader) : j # k /\ fileHeader[j] = fileHeader[k]

\* C4: an upload whose header line has an empty or a duplicated column name
\* ends with a non-empty error list, without preprocessData having produced
\* a report, and with an empty cleanedData in the store.
C4_MalformedHeaderAborts ==
  (pc = "up-done" /\ (HeaderHasEmptyName \/ HeaderHasDuplicate)) =>
    /\ validationErrors # <<>>
    /\ store.preprocessingReport = <<>>
    /\ store.cleanedData = <<>>

(***************************************************************************)
(* Claims about preprocessData and bad rows                                *)
(***************************************************************************)
\* a row that passes the three checks of its variant wherever it stands: its
\* fields are present, its date is accepted and no earlier row has its
\* identifier
ValidAt(i) ==
  LET row == RowOf(rawData, i) IN
    /\ ~InputLacksField(row)
    /\ IF variant = "composite" THEN validateDate(InputDate(row))
       ELSE validateDateReviewId(InputDate(row))
    /\ \A j \in 1..(i - 1) :
         InputLacksField(RowOf(rawData, j)) \/ OutputId(RowOf(rawData, j)) # OutputId(row)

\* C11: preprocessData never throws: whatever fields of whatever rows are
\* absent or empty, the call returns, every valid row is among the rows it
\* kept and every other row is reported.
C11_NeverThrows ==
  /\ pc # "pre-threw"
  /\ (pc = "pre-done" /\ run = 1) =>
       \A i \in 1..Len(rawData) : ValidAt(i) => i \in KeptRows

(***************************************************************************)
(* Claims about SentimentAnalyzer.analyzeSentiment                         *)
(***************************************************************************)
Bearing(word) == word \in {W_good, W_bad}
Result == sentiment.result

\* C12: the returned score lies in [-1, 1], magnitude is |score|, the label
\* is positive above 0.1, negative below -0.1 and neutral between, and a
\* text that is empty, blank or without a sentiment-bearing word gets
\* score 0, magnitude 0 and the label neutral.
C12_ScoreRange ==
  pc = "sen-done" =>
    /\ Result.score.den > 0
    /\ 0 - Result.score.den <= Result.score.num
    /\ Result.score.num <= Result.score.den
    /\ Result.magnitude.den > 0
    /\ Result.magnitude.num >= 0
    /\ \/ Result.magnitude.num * Result.score.den = Result.score.num * Result.magnitude.den
       \/ Result.magnitude.num * Result.score.den
            = (0 - Result.score.num) * Result.magnitude.den
    /\ Result.label = (IF 10 * Result.score.num > Result.score.den THEN "positive"
                       ELSE IF 10 * Result.score.num < 0 - Result.score.den
                            THEN "negative"
                       ELSE "neutral")
    /\ (\A k \in 1..Len(tokens) : ~Bearing(tokens[k])) =>
         /\ Result.score.num = 0
         /\ Result.magnitude.num = 0
         /\ Result.label = "neutral"

\* C12 witness: "very good", whose sum 1.5 over one word is brought down to 1
C12_Witness ==
  /\ pc = "sen-done"
  /\ tokens = <<W_very, W_good>>
  /\ sentiment.score.num * 2 = 3 * sentiment.score.den
  /\ Result.score.num = Result.score.den
  /\ Result.label = "positive"

\* C13: for a sentiment-bearing word w and an intensifier v, the magnitude
\* returned for the text "v w" is strictly larger than the magnitude
\* returned for the text "w".
C13_IntensifierRaisesMagnitude ==
  (pc = "sen-done" /\ Len(tokens) = 2 /\ tokens[1] = W_very /\ Bearing(tokens[2])
     /\ inputText = Render(tokens, "plain")) =>
    FracLess(analyzeSentiment(tokens[2]).magnitude, Result.magnitude)

\* twice what the word at position i is to add to the sum: 2 or 3, with the
\* sign of the word, turned round when a negation stands among the up to
\* three words before it
Expected2(i) ==
  LET base == IF tokens[i] = W_good THEN 1 ELSE 0 - 1
      flipped == \E j \in {i - 3, i - 2, i - 1} : j >= 1 /\ tokens[j] = W_not
      scale == IF i >= 2 /\ tokens[i - 1] = W_very THEN 3 ELSE 2
  IN (IF flipped THEN 0 - base ELSE base) * scale
RECURSIVE ExpectedSum2(_)
ExpectedSum2(n) ==
  IF n = 0 THEN 0
  ELSE ExpectedSum2(n - 1) + (IF Bearing(tokens[n]) THEN Expected2(n) ELSE 0)

\* C14: each sentiment-bearing word adds its sign, turned round exactly when
\* a negation stands among the up to three words before it and multiplied by
\* 1.5 exactly when the word just before it is an intensifier; the sum of
\* the analyzer is the sum of these and its count the number of such words.
\* "not good" and "not very good" score negative.
C14_NegationAndIntensifierWindows ==
  pc = "sen-done" =>
    /\ sentiment.wordCount = Cardinality({k \in 1..Len(tokens) : Bearing(tokens[k])})
    /\ sentiment.score.num * 2 = ExpectedSum2(Len(tokens)) * sentiment.score.den
    /\ tokens \in {<<W_not, W_good>>, <<W_not, W_very, W_good>>} => Result.score.num < 0

\* C14 witness: "not the the good good": the first good has the negation three
\* words back and is turned round, the second has it four words back and is not
C14_Witness ==
  /\ pc = "sen-done"
  /\ tokens = <<W_not, W_the, W_the, W_good, W_good>>
  /\ sentiment.wordCount = 2
  /\ sentiment.score.num = 0

(***************************************************************************)
(* Claims about SentimentAnalyzer.detectAnomalies                          *)
(***************************************************************************)
\* the rows with a date in 2008..now, by position, and the types of the
\* records that name a row (review_id is the position of the row)
ValidRows == {k \in 1..Len(reviews) : reviews[k].created_at = D2020}
TypesOf(k) ==
  {anomalies[j].type : j \in {h \in 1..Len(anomalies) : anomalies[h].review_id = k}}
SentimentTypes == {"sentiment_negative", "sentiment_positive", "sentiment_neutral"}
BaselineAt(k) == BaselineOf(ValidData(reviews), reviews[k])
EffectiveScoreAt(k) == AnomalyScoreOf(reviews[k], BaselineAt(k))

\* the rows of neighbourhood A are four rows of score 0.1 and one of score
\* 0.9, all valid and without an anomaly score
FiveRowScenario ==
  LET inA == {k \in ValidRows : reviews[k].neighbourhood = N_A} IN
    /\ Cardinality(inA) = 5
    /\ Cardinality({k \in inA : reviews[k].sentiment_score = Frac(1, 10)}) = 4
    /\ Cardinality({k \in inA : reviews[k].sentiment_score = Frac(9, 10)}) = 1
    /\ \A k \in inA : reviews[k].anomaly_score = NoNumber

\* C15: in the five-row scenario the rows of the neighbourhood are measured
\* against the neighbourhood's own mean and deviation, and the row of score
\* 0.9 gets a record of type sentiment_positive.
C15_FiveRowNeighbourhood ==
  (pc = "ano-done" /\ FiveRowScenario) =>
    \A k \in ValidRows :
      (reviews[k].neighbourhood = N_A /\ reviews[k].sentiment_score = Frac(9, 10)) =>
        /\ BaselineAt(k) = NeighbourhoodBaseline(ValidData(reviews), N_A)
        /\ "sentiment_positive" \in TypesOf(k)

\* C16: the baseline applied to a valid row has a standard deviation of at
\* least 0.2 (its square at least 0.04), and the z-score of the row is a
\* number: no record carries NaN.
C16_StdDevFloor ==
  pc = "ano-done" =>
    /\ \A k \in ValidRows :
         /\ ~FracLess(BaselineAt(k).stdDevSq, Frac(4, 100))
         /\ ZScoreOf(ScoreOf(reviews[k]), BaselineAt(k)).kind = "z"
    /\ \A j \in 1..Len(anomalies) : anomalies[j].anomaly_score.kind # "NaN"

\* C17: every valid row whose raw_text has fewer than 15 characters gets a
\* record of type suspicious.
C17_ShortTextSuspicious ==
  pc = "ano-done" =>
    \A k \in ValidRows :
      Len(reviews[k].raw_text) < 15 => "suspicious" \in TypesOf(k)

\* C18: every valid row whose language is not en and whose effective anomaly
\* score exceeds 1.5 gets a record of type language.
C18_NonEnglishLanguage ==
  pc = "ano-done" =>
    \A k \in ValidRows :
      (reviews[k].language # S_en /\ Exceeds(EffectiveScoreAt(k), Frac(3, 2)))
        => "language" \in TypesOf(k)

\* C19: a valid row gets a sentiment_* record exactly when its effective
\* anomaly score (its anomaly_score if it has one, otherwise its z-score) is
\* strictly greater than 2.0; the type is sentiment_negative below
\* mean - 1.5 stdDev, sentiment_positive above mean + 1.5 stdDev and
\* sentiment_neutral between, with mean and stdDev of the row's baseline.
C19_SentimentGate ==
  pc = "ano-done" =>
    \A k \in 1..Len(reviews) :
      /\ TypesOf(k) \cap SentimentTypes # {}
           <=> (k \in ValidRows /\ Exceeds(EffectiveScoreAt(k), Frac(2, 1)))
      /\ TypesOf(k) \cap SentimentTypes # {} =>
           TypesOf(k) =
             {IF BelowBand(ScoreOf(reviews[k]), BaselineAt(k)) THEN "sentiment_negative"
              ELSE IF AboveBand(ScoreOf(reviews[k]), BaselineAt(k))
                   THEN "sentiment_positive"
              ELSE "sentiment_neutral"}

\* C19 witness: a row flagged on its supplied anomaly score and typed
\* against the baseline, next to a row whose z-score is exactly 2 and which
\* is not flagged
C19_Witness ==
  /\ pc = "ano-done"
  /\ \E j \in 1..Len(anomalies) :
       /\ anomalies[j].type = "sentiment_neutral"
       /\ anomalies[j].anomaly_score.kind = "given"
  /\ \E k \in ValidRows :
       /\ EffectiveScoreAt(k) = [kind |-> "z", square |-> Frac(4, 1)]
       /\ TypesOf(k) = {}

(***************************************************************************)
(* Claims about SentimentAnalyzer.calculateTimelineSentiment               *)
(***************************************************************************)
\* the calendar month of a row, as a count of months, and the months of the
\* rows with a valid date
MonthOfRow(k) ==
  LET day == LocalDay(reviews[k].created_at) IN
    (day \div 10000) * 12 + ((day \div 100) % 100)
DatedRows == {k \in 1..Len(reviews) : validateDateSentiment(reviews[k].created_at)}
MonthsOfRows == {MonthOfRow(k) : k \in DatedRows}
NthMonth(i) ==
  CHOOSE mo \in MonthsOfRows : Cardinality({x \in MonthsOfRows : x < mo}) = i - 1
\* the month a label MM/YY names, as a count of months
MonthOfLabel(label) ==
  (2000 + DigitVal(label[4]) * 10 + DigitVal(label[5])) * 12
    + DigitVal(label[1]) * 10 + DigitVal(label[2])

C21_ChangeGuarded ==
  pc = "tl-done" =>
    \A i \in 1..Len(timeline) :
      LET cur == timeline[i].averageSentiment IN
        IF i = 1 THEN timeline[i].change.kind = "absent"
        ELSE LET prev == timeline[i - 1].averageSentiment IN
             IF prev.num = 0 THEN timeline[i].change.kind = "absent"
             ELSE /\ timeline[i].change.kind = "number"
                  /\ timeline[i].change.value =
                       ToFixedNumber(Frac((cur.num * prev.den - prev.num * cur.den) * 100,
                                          cur.den * prev.num), 10)

(***************************************************************************)
(* Claims about preprocessData and remembered identifiers                  *)
(***************************************************************************)
\* an earlier row with the identifier of row i was accepted
AcceptedBefore(i) ==
  \E j \in KeptRows :
    j < i /\ ReviewIdOf(RowOf(rawData, j)) = ReviewIdOf(RowOf(rawData, i))
\* row i has its fields and a date the variant accepts
PassesOtherChecks(i) ==
  ~InputLacksField(RowOf(rawData, i)) /\ validateDate(InputDate(RowOf(rawData, i)))

\* C25 (composite-id variant): a row that has its fields is dropped as a
\* duplicate exactly when an earlier row with the same identifier was
\* accepted, no row is dropped as a duplicate otherwise, and the first row
\* that carries an identifier and passes the other checks is accepted,
\* whatever rows with that identifier were dropped before it.
C25_DuplicateOfAccepted ==
  (pc = "pre-done" /\ variant = "composite") =>
    \A i \in 1..Len(rawData) :
      /\ ~InputLacksField(RowOf(rawData, i)) =>
           (ReasonAt(i) = "duplicate" <=> AcceptedBefore(i))
      /\ ReasonAt(i) = "duplicate" => AcceptedBefore(i)
      /\ (/\ PassesOtherChecks(i)
          /\ \A j \in 1..(i - 1) :
               ~(/\ PassesOtherChecks(j)
                 /\ ReviewIdOf(RowOf(rawData, j)) = ReviewIdOf(RowOf(rawData, i))))
           => i \in KeptRows

\* C25 witness: a row dropped for its missing text, then a complete row with
\* the same identifier that is accepted, then that row again, dropped as a
\* duplicate
C25_Witness ==
  /\ pc = "pre-done" /\ variant = "composite" /\ run = 1
  /\ Len(rawData) = 3
  /\ ReasonAt(1) = "missing" /\ ReasonAt(2) = "kept" /\ ReasonAt(3) = "duplicate"
  /\ ReviewIdOf(RowOf(rawData, 1)) = ReviewIdOf(RowOf(rawData, 2))
  /\ ReviewIdOf(RowOf(rawData, 2)) = ReviewIdOf(RowOf(rawData, 3))

(***************************************************************************)
(* Claims about the records of detectAnomalies                             *)
(***************************************************************************)
\* the year written in a row's created_at
YearWritten(k) == TwoDigits(reviews[k].created_at, 1) * 100
                  + TwoDigits(reviews[k].created_at, 3)

\* C28: detectAnomalies emits at most one record per input row, only for
\* rows whose created_at year lies in 2008..current year, and in the order
\* of the input rows (review_id is the position of the row in the input).
C28_OneRecordPerRow ==
  pc = "ano-done" =>
    /\ \A j \in 1..Len(anomalies) :
         /\ anomalies[j].review_id \in 1..Len(reviews)
         /\ YearWritten(anomalies[j].review_id) >= 2008
         /\ YearWritten(anomalies[j].review_id) <= CurrentDate \div 10000
    /\ \A j \in 1..Len(anomalies) : \A k \in 1..Len(anomalies) :
         j < k => anomalies[j].review_id < anomalies[k].review_id

\* C28 witness: a short, non-English row whose supplied score passes the
\* gate has one record, a row of 1999 after it has none, and a short row
\* after that has one
C28_Witness ==
  /\ pc = "ano-done"
  /\ Len(reviews) = 3
  /\ Len(reviews[1].raw_text) < 15 /\ reviews[1].language # S_en
  /\ reviews[1].anomaly_score = Frac(5, 2)
  /\ YearWritten(2) = 1999
  /\ Len(anomalies) = 2
  /\ anomalies[1].review_id = 1 /\ anomalies[2].review_id = 3

\* no row carries a supplied anomaly score
NoSuppliedScore == \A k \in 1..Len(reviews) : reviews[k].anomaly_score = NoNumber

RowsOfBatch(b) == {b.batchStartIndex + b.indices[n] + 1 : n \in 1..Len(b.indices)}
FailedOutcomes == {"rejected", "unparseable"}

\* C22: when the call of a batch is rejected, times out or returns nothing
\* that can be parsed, every row of the batch gets from enhanceDataWithLLM
\* the score analyzeSentiment returns for its text.
C22_LexiconOnFailure ==
  pc = "llm-done" =>
    \A j \in 1..Len(batches) :
      batches[j].outcome \in FailedOutcomes =>
        \A k \in RowsOfBatch(batches[j]) :
          FracEq(enhanced[k].llm_sentiment_score,
                 analyzeSentiment(llmData[k].raw_text).score)

\* C26: a batch whose call was rejected falls back only after maxRetries
\* further requests, three requests in all.
C26_RetriesBeforeFallback ==
  \A j \in 1..Len(batches) :
    (batches[j].pc = "done" /\ batches[j].outcome = "rejected") =>
      batches[j].requests = maxRetries + 1

\* the row is built from a result for its own text: the service's score and
\* language of the text, or one of the fallback results
OwnResult(row, source) ==
  /\ row.review_id = source.review_id
  /\ row.raw_text = source.raw_text
  /\ row.language = row.llm_language
  /\ \/ /\ row.llm_confidence = Frac(8, 10)
        /\ row.llm_sentiment_score = OracleScore(source.raw_text)
        /\ row.llm_language = S_de
     \/ /\ row.llm_confidence \in {Frac(1, 10), Frac(1, 2)}
        /\ row.llm_sentiment_score = Frac(0, 1)
        /\ row.llm_language = S_en

\* C23: whatever the outcomes, cache hits and completion orders of the
\* batches, enhanceDataWithLLM resolves with one row per input row, none
\* without a result, and the i-th row carries the review_id and the result
\* of the i-th input row.
C23_OneRowPerInputInOrder ==
  pc = "llm-done" =>
    /\ Len(enhanced) = Len(llmData)
    /\ \A k \in 1..Len(llmData) : results[k] # Hole
    /\ \A k \in 1..Len(llmData) : OwnResult(enhanced[k], llmData[k])

\* a later group whose batch found the first of its texts in the cache and
\* asked for the second, after an earlier request was rejected
C23_Witness ==
  /\ pc = "llm-done"
  /\ groupStart > 0
  /\ batches[1].indices = <<1>>
  /\ batches[1].outcome = "parsed"
  /\ enhanced[Len(enhanced)].llm_sentiment_score = OracleScore(W_bad)
  /\ \E k \in 1..Len(enhanced) : enhanced[k].llm_confidence = Frac(1, 10)

\* the step starts a group of batches
Launches == pc = "llm-input" \/ groupStart' # groupStart
\* batch j settles in the step
Settles(j) ==
  /\ ~Launches
  /\ j \in 1..Len(batches)
  /\ batches[j].pc = "awaiting" /\ batches'[j].pc = "done"

\* C27: no request is issued while errorCount >= maxErrors, the texts of a
\* batch that was not sent get the fallback result, errorCount grows by one
\* with each rejected request and only then, and it returns to 0 only with a
\* parsed answer or with clearCache.
C27_CircuitBreaker ==
  [][/\ Launches =>
          \A j \in 1..Len(batches') :
            /\ batches'[j].requests > 0 => errorCount' < maxErrors
            /\ (errorCount' >= maxErrors /\ Len(batches'[j].uncached) > 0) =>
                 (batches'[j].pending = "skipped" /\ batches'[j].requests = 0)
     /\ \A j \in 1..Len(batches) :
          Settles(j) =>
            /\ batches'[j].requests = batches[j].requests
            /\ batches[j].pending = "skipped" =>
                 \A k \in RowsOfBatch(batches[j]) : results'[k] = DefaultResult
            /\ batches'[j].outcome = "rejected" => errorCount' = errorCount + 1
            /\ batches'[j].outcome = "parsed" => errorCount' = 0
            /\ batches'[j].outcome \in {"unparseable", "skipped"} =>
                 errorCount' = errorCount
     /\ errorCount' # errorCount =>
          \/ pc = "llm-input" /\ errorCount' = 0
          \/ \E j \in 1..Len(batches) :
               Settles(j) /\ batches'[j].outcome \in {"rejected", "parsed"}
    ]_vars

\* three rejected requests, three more that were in flight together, and a
\* seventh batch that was not sent
C27_Witness ==
  /\ pc = "llm-done"
  /\ errorCount > maxErrors
  /\ \E j \in 1..Len(batches) :
       /\ batches[j].outcome = "skipped"
       /\ batches[j].requests = 0
       /\ \A k \in RowsOfBatch(batches[j]) : enhanced[k].llm_confidence = Frac(1, 10)

(***************************************************************************)
(* Claims about the uploads and the runs of Index.startAnalysis            *)
(***************************************************************************)
IdsOfCleaned ==
  {Get(store.cleanedData[k], K_review_id) : k \in 1..Len(store.cleanedData)}
IdsOfEnhanced ==
  {store.enhancedData[k].review_id : k \in 1..Len(store.enhancedData)}

\* C24: the store never holds the enhancedData of an earlier upload next to
\* the cleanedData of a later one: when enhancedData is not empty, its
\* review_ids are those of cleanedData.
C24_EnhancedOfCurrentUpload ==
  Len(store.enhancedData) > 0 => IdsOfEnhanced = IdsOfCleaned

\* C30: from its start to its end a run finds isAnalyzing true, unless
\* clearData was called in between.
C30_AnalyzingDuringRun ==
  \A r \in 1..Len(runs) :
    (Active(runs[r]) /\ ~runs[r].cleared) => store.isAnalyzing

====
